---- MODULE Spec2Model ----
(***************************************************************************)
(* paramMCTS: the interned parameter/node stores and the MCTS engine of    *)
(* paramMCTS/types.py, and the master / worker shim / executor runtime of  *)
(* paramMCTS/runtime.py.                                                   *)
(*                                                                         *)
(* Python objects live in `heap` (object id -> fields); the class-level    *)
(* dictionaries Node.__storage and Parameter.__storage are `storage` and   *)
(* `parameters`.  Python's None is the empty tuple <<>>, a present value v *)
(* is <<v>>.                                                               *)
(***************************************************************************)
EXTENDS Integers, Sequences, FiniteSets, TLC

VARIABLES
    parameters,     \* Parameter.__storage, in insertion order
    storage,        \* Node.__storage: frozenset(assignments) -> object id
    heap,           \* Node objects: id -> [assignments, childs, value, visits]
    config,         \* configuration: [root, timeout]
    last,           \* the last call made on the engine and what it returned
    calls,          \* history: the Node(S) constructions made with save=True
    leaves,         \* Leafs returned by select_leaf whose result is outstanding
    applied,        \* history: the results back-propagated so far
    ncalls,         \* history: number of direct calls made on Node
    mpi,            \* mpi['size']: the master and its executors
    terminate,      \* Master.__terminate (threading.Event)
    task_queue,     \* Master.__task_queue
    result_queue,   \* Master.__result_queue
    master,         \* Master.run: its position, locals and loop history
    worker,         \* the Worker of each rank: [pc, task, result]
    bus_to,         \* messages sent by rank 0 to rank r with tag r
    bus_from,       \* messages sent by rank r to rank 0 with tag r
    executor,       \* the Executor of each rank: receiver and main thread, queue
    log,            \* history: what the master did after leaving its loop
    disk,           \* the checkpoint file written by save_state, or None
    nio             \* history: number of save_state / clear / load_state calls

engine == <<parameters, storage, heap, config, last, calls, leaves, applied,
            ncalls>>

runtime == <<mpi, terminate, task_queue, result_queue, master, worker, bus_to,
             bus_from, executor, log>>

files == <<disk, nio>>

vars == <<engine, runtime, files>>

----------------------------------------------------------------------------
(* Bounds of the model *)

MaxSelect == 3        \* select_leaf calls in one behaviour
MaxOutstanding == 2   \* leaves selected and not yet back-propagated
Timeout == 2          \* config['timeout'], the per-run budget in seconds
Value == 1            \* the runtime a run that was not interrupted reports
MaxCalls == 4         \* direct Node(S) / generate_childs calls in one behaviour
MaxSize == 3          \* mpi['size'] ranges over 2..MaxSize
MaxTasks == 3         \* select_leaf calls of one Master.run
MaxIO == 3            \* save_state / clear / load_state calls in one behaviour
MaxVars == 2          \* variables of one callstring argument
MaxRollouts == 1      \* direct random_child / random_leaf calls in one behaviour
Mantissa == 6         \* bits of a float's mantissa (53 in CPython)
MaxPrior == 10        \* results of one kind applied before the first call
MaxUpdates == 1       \* direct _update calls in one behaviour
MaxMessages == 3      \* messages rank 0 sends to one executor
MaxDescents == 5      \* select_leaf calls on the tree of three flat parameters

(* Program constants *)

Penalty == 3          \* Master.__init__(..., penalty=3, ...)

----------------------------------------------------------------------------
(* Helpers for Python data *)

None == <<>>
Some(v) == <<v>>

NoError == "none"

ToSet(seq) == {seq[i] : i \in DOMAIN seq}
Range(f) == {f[x] : x \in DOMAIN f}

RECURSIVE Flatten(_)
Flatten(seqs) == IF seqs = <<>> THEN <<>> ELSE Head(seqs) \o Flatten(Tail(seqs))

RECURSIVE SumOver(_, _)
SumOver(S, f) ==
    IF S = {} THEN 0
    ELSE LET x == CHOOSE y \in S : TRUE IN f[x] + SumOver(S \ {x}, f)

----------------------------------------------------------------------------
(* types.py: Parameter, Assignment *)

\* Parameter.__new__ fills name, values = tuple(values), condition.
Parameter(name, values, condition) ==
    [name |-> name, values |-> values, condition |-> condition]

\* Assignment(name, value); __eq__ and __hash__ are those of (name, value).
Assignment(name, value) == <<name, value>>

\* The registry of the unit tests (TestNode.setUp), values as integers.
RegCond ==
    << Parameter("a", <<1, 2>>, None),
       Parameter("b", <<1>>, Some([a |-> {1, 2}])),
       Parameter("c", <<1>>, Some([a |-> {2}, b |-> {1}])) >>

\* Three unconditional parameters: every subset of assignments is a node.
RegFlat ==
    << Parameter("a", <<1>>, None),
       Parameter("b", <<1>>, None),
       Parameter("c", <<1>>, None) >>

Registries == {RegCond, RegFlat}

----------------------------------------------------------------------------
(* types.py: Node *)

NewNode(assignments) ==
    [assignments |-> assignments, childs |-> None, value |-> 0, visits |-> 0]

\* Node.__new__ finding a stored node only when the tuples are equal.
Node_new_tuple(st, hp, assignments, save) ==
    LET key == ToSet(assignments)
        id == Len(hp) + 1
    IN
    IF key \in DOMAIN st /\ hp[st[key]].assignments = assignments
    THEN [storage |-> st, heap |-> hp, id |-> st[key], node |-> hp[st[key]]]
    ELSE IF save
         THEN [storage |-> [k \in DOMAIN st \cup {key} |->
                               IF k = key THEN id ELSE st[k]],
               heap |-> Append(hp, NewNode(assignments)),
               id |-> id,
               node |-> NewNode(assignments)]
         ELSE [storage |-> st, heap |-> hp, id |-> 0,
               node |-> NewNode(assignments)]

\* Node.__new__(cls, assignments, save): look the frozenset up, else create.
\* id = 0 stands for a fresh object that no store refers to.
Node_new(st, hp, assignments, save) ==
    LET key == ToSet(assignments) IN
    IF key \in DOMAIN st
    THEN [storage |-> st, heap |-> hp, id |-> st[key], node |-> hp[st[key]]]
    ELSE IF save
         THEN LET id == Len(hp) + 1 IN
              [storage |-> [k \in DOMAIN st \cup {key} |->
                               IF k = key THEN id ELSE st[k]],
               heap |-> Append(hp, NewNode(assignments)),
               id |-> id,
               node |-> NewNode(assignments)]
         ELSE [storage |-> st, heap |-> hp, id |-> 0,
               node |-> NewNode(assignments)]

\* Node.node_count
node_count == Cardinality(DOMAIN storage)

\* Node.is_leaf
is_leaf(hp, n) == hp[n].childs = None

\* parameter_satisfied returning True at the first satisfied entry.
parameter_satisfied_any(assignments, parameter) ==
    IF parameter.condition = None THEN TRUE
    ELSE LET condition == parameter.condition[1] IN
         \E cname \in DOMAIN condition :
            \E cvalue \in condition[cname] :
                Assignment(cname, cvalue) \in ToSet(assignments)

\* Node.parameter_satisfied: every condition entry has one of its values
\* assigned ((cname, cvalue) in self.assignments).
parameter_satisfied(assignments, parameter) ==
    IF parameter.condition = None THEN TRUE
    ELSE LET condition == parameter.condition[1] IN
         \A cname \in DOMAIN condition :
            \E cvalue \in condition[cname] :
                Assignment(cname, cvalue) \in ToSet(assignments)

\* Node.free_parameters: registry order, unassigned and satisfied.
free_parameters(assignments) ==
    LET assigned_parameters == {assignments[i][1] : i \in DOMAIN assignments}
        free(p) == /\ p.name \notin assigned_parameters
                   /\ parameter_satisfied(assignments, p)
    IN SelectSeq(parameters, free)

\* child interning whatever it builds.
child_saved(st, hp, node, assignment, save) ==
    Node_new(st, hp, node.assignments \o <<assignment>>, TRUE)

\* Node.child(assignment, save)
child(st, hp, node, assignment, save) ==
    Node_new(st, hp, node.assignments \o <<assignment>>, save)

\* generate_childs taking only the first value of each free parameter.
NewAssignments_first(assignments) ==
    LET fp == free_parameters(assignments) IN
    [i \in 1..Len(fp) |-> Assignment(fp[i].name, fp[i].values[1])]

\* The Assignment(parameter.name, value) list of generate_childs, in order.
NewAssignments(assignments) ==
    LET fp == free_parameters(assignments) IN
    Flatten([i \in 1..Len(fp) |->
                [j \in 1..Len(fp[i].values) |->
                    Assignment(fp[i].name, fp[i].values[j])]])

\* childs += [self.child(...)]: intern the children one after the other.
RECURSIVE ChildAll(_, _, _, _, _)
ChildAll(st, hp, node, news, acc) ==
    IF news = <<>> THEN [storage |-> st, heap |-> hp, childs |-> acc]
    ELSE LET r == child(st, hp, node, Head(news), TRUE) IN
         ChildAll(r.storage, r.heap, node, Tail(news), Append(acc, r.id))

\* generate_childs without its assertion.
generate_childs_noassert(st, hp, n) ==
    LET r == ChildAll(st, hp, hp[n], NewAssignments(hp[n].assignments), <<>>)
    IN IF r.childs # <<>>
       THEN [ok |-> TRUE, storage |-> r.storage,
             heap |-> [r.heap EXCEPT ![n].childs = Some(ToSet(r.childs))],
             ret |-> ToSet(r.childs)]
       ELSE [ok |-> TRUE, storage |-> r.storage, heap |-> r.heap,
             ret |-> {n}]

\* Node.generate_childs on object n.  ok is the assertion; ret is the set
\* random.choice draws from (or the node itself).
generate_childs(st, hp, n) ==
    IF hp[n].childs # None
    THEN [ok |-> FALSE, storage |-> st, heap |-> hp, ret |-> {}]
    ELSE LET r == ChildAll(st, hp, hp[n], NewAssignments(hp[n].assignments),
                           <<>>)
         IN IF r.childs # <<>>
            THEN [ok |-> TRUE, storage |-> r.storage,
                  heap |-> [r.heap EXCEPT ![n].childs = Some(ToSet(r.childs))],
                  ret |-> ToSet(r.childs)]
            ELSE [ok |-> TRUE, storage |-> r.storage, heap |-> r.heap,
                  ret |-> {n}]

\* random_leaf returning the node's own assignments.
random_leaf_short(st, hp, node) ==
    {[storage |-> st, heap |-> hp, assignment |-> node.assignments]}

\* Node.random_child / Node.random_leaf from a node record: the outcomes of
\* the random walk, each with the stores it leaves behind.
RECURSIVE random_leaf(_, _, _)
random_leaf(st, hp, node) ==
    LET fp == free_parameters(node.assignments) IN
    IF fp = <<>>
    THEN {[storage |-> st, heap |-> hp, assignment |-> node.assignments]}
    ELSE UNION { LET r == child(st, hp, node,
                              Assignment(fp[ij[1]].name,
                                         fp[ij[1]].values[ij[2]]), FALSE)
                 IN random_leaf(r.storage, r.heap, r.node) :
                 ij \in {<<i, j>> \in (1..Len(fp)) \X (1..2) :
                            j <= Len(fp[i].values)} }

\* Node.random_child: None without free parameters, else a child built
\* with save=False for a random free parameter and one of its values.
random_child(st, hp, node) ==
    LET fp == free_parameters(node.assignments) IN
    IF fp = <<>> THEN {[storage |-> st, heap |-> hp, ret |-> None]}
    ELSE { LET r == child(st, hp, node,
                          Assignment(fp[ij[1]].name, fp[ij[1]].values[ij[2]]),
                          FALSE)
           IN [storage |-> r.storage, heap |-> r.heap, ret |-> Some(r.node)] :
           ij \in {<<i, j>> \in (1..Len(fp)) \X (1..2) :
                      j <= Len(fp[i].values)} }

\* Node.select_child: max over the children of uct(self, real=False).  The
\* score is floating point with an EPSILON * random() jitter; the model
\* admits every child.
select_child(hp, n) == hp[n].childs[1]

\* Node.select_best_leaf(real=False): descend while the node has children.
RECURSIVE select_best_leaf(_, _)
select_best_leaf(hp, n) ==
    IF is_leaf(hp, n) THEN {n}
    ELSE UNION {select_best_leaf(hp, c) : c \in select_child(hp, n)}

\* Leaf(node, assignment)
Leaf(node, assignment) == [node |-> node, assignment |-> assignment]

\* Node.select_leaf: the possible outcomes [storage, heap, expanded, leaf].
select_leaf(st, hp, rootid) ==
    UNION { LET g == generate_childs(st, hp, node) IN
            UNION { { [storage |-> rl.storage, heap |-> rl.heap,
                       expanded |-> node,
                       leaf |-> Leaf(c, rl.assignment)] :
                      rl \in random_leaf(g.storage, g.heap, g.heap[c]) } :
                    c \in g.ret } :
            node \in select_best_leaf(hp, rootid) }

----------------------------------------------------------------------------
(* runtime.py: Result, Master._update *)

Result(node, value) == [node |-> node, value |-> value]

\* _update substituting the bare timeout for an interrupted run.
update_value_nopenalty(result) ==
    IF result.value # None THEN result.value[1]
    ELSE config.timeout

\* value = result.value if result.value is not None else penalty * timeout
update_value(result) ==
    IF result.value # None THEN result.value[1]
    ELSE Penalty * config.timeout

\* 2^k
RECURSIVE Exp2(_)
Exp2(k) == IF k = 0 THEN 1 ELSE 2 * Exp2(k - 1)

\* The quantum of the floats around x: 1 below 2^Mantissa, doubling with
\* every binary order of magnitude above it.
RECURSIVE Quantum(_, _)
Quantum(x, q) == IF x < q * Exp2(Mantissa) THEN q ELSE Quantum(x, 2 * q)

\* Rounding of a real to the nearest float, ties to the even mantissa
\* (a Python float keeps sys.float_info.mant_dig bits, here Mantissa).
float_round(x) ==
    LET q == Quantum(x, 1)
        lo == (x \div q) * q
        rem == x - lo
    IN IF 2 * rem < q THEN lo
       ELSE IF 2 * rem > q THEN lo + q
       ELSE IF (x \div q) % 2 = 0 THEN lo ELSE lo + q

\* whether x is a float
Exact(x) == float_round(x) = x

\* node.value += value overwriting the sum so far.
float_add_overwrite(x, y) == y

\* node.value += value on Python numbers: the sum, rounded.
float_add(x, y) == float_round(x + y)

\* _update with a proper-subset test (params < leaf).
Master_update_proper(st, hp, result) ==
    LET leaf == ToSet(hp[result.node].assignments)
        value == update_value(result)
    IN [id \in DOMAIN hp |->
          IF /\ id \in Range(st)
             /\ ToSet(hp[id].assignments) \subseteq leaf
             /\ ToSet(hp[id].assignments) # leaf
          THEN [hp[id] EXCEPT !.visits = @ + 1, !.value = float_add(@, value)]
          ELSE hp[id]]

\* _update without the subset test: every stored node is updated.
Master_update_all(st, hp, result) ==
    LET value == update_value(result)
    IN [id \in DOMAIN hp |->
          IF id \in Range(st)
          THEN [hp[id] EXCEPT !.visits = @ + 1, !.value = float_add(@, value)]
          ELSE hp[id]]

\* Master._update: every stored node whose assignments are a subset of the
\* result node's assignments.
Master_update(st, hp, result) ==
    LET leaf == ToSet(hp[result.node].assignments)
        value == update_value(result)
    IN [id \in DOMAIN hp |->
          IF id \in Range(st) /\ ToSet(hp[id].assignments) \subseteq leaf
          THEN [hp[id] EXCEPT !.visits = @ + 1, !.value = float_add(@, value)]
          ELSE hp[id]]

----------------------------------------------------------------------------
(* Calls on the engine *)

\* Result.value: None for an interrupted run, else float(time)
ResultValues == {None, Some(Value)}

Interned == Range(storage)

Key(id) == ToSet(heap[id].assignments)

\* The (frozenset, object) pairs that a call's Node(..., save=True)
\* constructions returned: the keys that st2 holds for the ids.
Constructed(st2, ids) ==
    {[key |-> k, id |-> st2[k]] : k \in {k \in DOMAIN st2 : st2[k] \in ids}}

\* Master.run at pc, with the history of its main loop: selections made,
\* run tasks enqueued and results back-propagated with terminate set.
NewMaster(pc) ==
    [pc |-> pc, leaf |-> None, dest |-> 0, selected |-> 0,
     late_put |-> 0, late_update |-> 0]

\* No master is running: the engine is called directly.
NoRuntime ==
    /\ mpi = [size |-> 1]
    /\ terminate = FALSE
    /\ task_queue = <<>>
    /\ result_queue = <<>>
    /\ master = NewMaster("none")
    /\ worker = <<>>
    /\ bus_to = <<>>
    /\ bus_from = <<>>
    /\ executor = <<>>
    /\ log = <<>>
    /\ disk = None
    /\ nio = 0

\* leaf = root.select_leaf()
CallSelectLeaf ==
    /\ Len(leaves) + Len(applied) < MaxSelect
    /\ Len(leaves) < MaxOutstanding
    /\ \E s \in select_leaf(storage, heap, config.root) :
        /\ storage' = s.storage
        /\ heap' = s.heap
        /\ leaves' = Append(leaves, s.leaf)
        /\ last' = [op |-> "select_leaf", node |-> s.expanded, ok |-> TRUE,
                    ret |-> {s.leaf.node}]
    /\ UNCHANGED <<parameters, config, calls, applied, ncalls, runtime, files>>

\* self._update(result) for the Result of an outstanding leaf
CallUpdate ==
    /\ \E i \in DOMAIN leaves : \E v \in ResultValues :
        LET result == Result(leaves[i].node, v) IN
        /\ heap' = Master_update(storage, heap, result)
        /\ leaves' = [j \in 1..(Len(leaves) - 1) |->
                        IF j < i THEN leaves[j] ELSE leaves[j + 1]]
        /\ applied' = Append(applied,
                        [node |-> ToSet(heap[leaves[i].node].assignments),
                         full |-> ToSet(leaves[i].assignment),
                         value |-> v,
                         present |-> Interned])
        /\ last' = [op |-> "update", node |-> leaves[i].node, ok |-> TRUE,
                    ret |-> {}]
    /\ UNCHANGED <<parameters, storage, config, calls, ncalls, runtime, files>>

\* config['root'] = paramMCTS.types.Node()   (paramMCTS.py main)
Init ==
    /\ parameters \in Registries
    /\ storage = [k \in {{}} |-> 1]
    /\ heap = <<NewNode(<<>>)>>
    /\ config = [root |-> 1, timeout |-> Timeout]
    /\ last = [op |-> "init", node |-> 0, ok |-> TRUE, ret |-> {}]
    /\ calls = {}
    /\ leaves = <<>>
    /\ applied = <<>>
    /\ ncalls = 0
    /\ NoRuntime

Next == CallSelectLeaf \/ CallUpdate

\* The master's use of the engine: selections and back-propagations.
Spec == Init /\ [][Next]_vars

----------------------------------------------------------------------------
(* Direct calls on Node, as the unit tests make them *)

InputAssignments ==
    {Assignment("a", 1), Assignment("a", 2), Assignment("b", 1)}

\* The lists / tuples handed to Node(...): up to two assignments, in either
\* order, repetitions included.
InputSeqs ==
    {<<>>} \cup {<<x>> : x \in InputAssignments}
           \cup {<<x, y>> : x \in InputAssignments, y \in InputAssignments}

\* Node(assignments, save)
CallNode ==
    /\ ncalls < MaxCalls
    /\ ncalls' = ncalls + 1
    /\ \E seq \in InputSeqs : \E save \in BOOLEAN :
        LET r == Node_new(storage, heap, seq, save) IN
        /\ storage' = r.storage
        /\ heap' = r.heap
        /\ calls' = IF save THEN calls \cup {[key |-> ToSet(seq), id |-> r.id]}
                    ELSE calls
        /\ last' = [op |-> "Node", node |-> r.id, ok |-> TRUE, ret |-> {r.id},
                    save |-> save, seq |-> seq]
    /\ UNCHANGED <<parameters, config, leaves, applied, runtime, files>>

\* node.generate_childs() on a stored node
CallGenerateChilds ==
    /\ ncalls < MaxCalls
    /\ ncalls' = ncalls + 1
    /\ \E n \in Interned :
        LET g == generate_childs(storage, heap, n) IN
        /\ storage' = g.storage
        /\ heap' = g.heap
        /\ calls' = calls \cup
                    (IF g.ok /\ g.ret # {n} THEN Constructed(g.storage, g.ret)
                     ELSE {})
        /\ last' = [op |-> "generate_childs", node |-> n, ok |-> g.ok,
                    ret |-> g.ret]
    /\ UNCHANGED <<parameters, config, leaves, applied, runtime, files>>

\* An empty store (types.clear() in tearDown) and the registry of setUp.
InitNode ==
    /\ parameters = RegCond
    /\ storage = [k \in {} |-> 0]
    /\ heap = <<>>
    /\ config = [root |-> 0, timeout |-> Timeout]
    /\ last = [op |-> "init", node |-> 0, ok |-> TRUE, ret |-> {}]
    /\ calls = {}
    /\ leaves = <<>>
    /\ applied = <<>>
    /\ ncalls = 0
    /\ NoRuntime

NextNode == CallNode \/ CallGenerateChilds

SpecNode == InitNode /\ [][NextNode]_vars

----------------------------------------------------------------------------
(* runtime.py: what crosses the bus.  mpi4py's comm.send pickles its object *)
(* and comm.recv unpickles it: a Node travels as __getnewargs__ and         *)
(* __getstate__ of itself and of every node its childs reach, and is        *)
(* rebuilt by Node.__new__(assignments, True) followed by __setstate__.     *)

RECURSIVE Reach(_, _)
Reach(hp, n) ==
    {n} \cup (IF hp[n].childs = None THEN {}
              ELSE UNION {Reach(hp, c) : c \in hp[n].childs[1]})

\* __getstate__ losing the visit count.
Node_getstate_novisits(node) == [node EXCEPT !.visits = 0]

\* Node.__getstate__: assignments, childs, value, visits
Node_getstate(node) == node

\* pickle.dumps of node n (Node.__getnewargs__ / Node.__getstate__)
Pickle(hp, n) == [id \in Reach(hp, n) |-> Node_getstate(hp[id])]

\* Node.__new__ for every pickled node, lowest id first.
RECURSIVE NewAll(_, _, _, _, _)
NewAll(st, hp, pickled, todo, idmap) ==
    IF todo = {} THEN [storage |-> st, heap |-> hp, idmap |-> idmap]
    ELSE LET id == CHOOSE x \in todo : \A y \in todo : x <= y
             r == Node_new(st, hp, pickled[id].assignments, TRUE)
         IN NewAll(r.storage, r.heap, pickled, todo \ {id},
                   [x \in DOMAIN idmap \cup {id} |->
                        IF x = id THEN r.id ELSE idmap[x]])

\* pickle.loads of node n in a process whose stores are st, hp:
\* Node.__new__ returns the stored object where the key exists, and
\* Node.__setstate__ then overwrites its fields with the pickled ones.
Unpickle(st, hp, pickled, n) ==
    LET a == NewAll(st, hp, pickled, DOMAIN pickled, [x \in {} |-> 0])
        from(i) == CHOOSE id \in DOMAIN pickled : a.idmap[id] = i
        state(id) ==
            [assignments |-> pickled[id].assignments,
             childs |-> IF pickled[id].childs = None THEN None
                        ELSE Some({a.idmap[c] : c \in pickled[id].childs[1]}),
             value |-> pickled[id].value,
             visits |-> pickled[id].visits]
    IN [storage |-> a.storage,
        heap |-> [i \in DOMAIN a.heap |->
                    IF i \in Range(a.idmap) THEN state(from(i))
                    ELSE a.heap[i]],
        id |-> a.idmap[n]]

----------------------------------------------------------------------------
(* configuration.py: save_state *)

\* The keys of the configuration dictionary: read_hal_json's entries, and
\* root and timeout as main adds them (root 0: no root entry).
ConfigKeys(cfg) ==
    {"instance_selector", "program_caller", "timeout"}
        \cup (IF cfg.root # 0 THEN {"root"} ELSE {})

\* save_state: pickle.dump((configuration, get_parameters(), get_nodes())).
\* Every Node reached from the configuration or from the store is written
\* once, as its __getnewargs__ and __getstate__.
save_state(cfg, reg, st, hp) ==
    LET roots == Range(st) \cup (IF cfg.root # 0 THEN {cfg.root} ELSE {})
        ids == UNION {Reach(hp, n) : n \in roots}
    IN [configuration |-> [keys |-> ConfigKeys(cfg), root |-> cfg.root,
                           timeout |-> cfg.timeout],
        parameters |-> reg,
        nodes |-> st,
        objects |-> [id \in ids |-> Node_getstate(hp[id])]]

\* The file after save_state, with the stores as they were when it was
\* written (history, for comparing a later load with them).
Checkpoint(cfg, reg, st, hp) ==
    Some([state |-> save_state(cfg, reg, st, hp),
          parameters |-> reg, storage |-> st, heap |-> hp, config |-> cfg])

----------------------------------------------------------------------------
(* runtime.py: Master *)

Task(command, content) == [command |-> command, content |-> content]

TASK_STOP == "stop"
TASK_PREFIX == "prefix"
TASK_RUN == "run"

\* destinations without the last rank.
destinations_short == 1..(mpi.size - 2)

\* self.__destinations = range(1, self.__mpi['size'])
destinations == 1..(mpi.size - 1)

\* queue_size = self.__mpi['size'] * 2
queue_size == mpi.size * 2

\* a high-water mark above the capacity of the queue.
task_upper_bound_capacity == mpi.size * 2 + 1

\* task_upper_bound = self.__mpi['size']
task_upper_bound == mpi.size

\* a low-water mark equal to the high-water mark.
task_lower_bound_size == mpi.size

\* task_lower_bound = math.ceil(self.__mpi['size'] / 2)
task_lower_bound == (mpi.size + 1) \div 2

\* A chain of parameters: b can be assigned once a is.
RegChain ==
    << Parameter("a", <<1>>, None),
       Parameter("b", <<1>>, Some([a |-> {1}])) >>

\* InstanceSelector.random_assignment: Assignment(variable, instance)
Instances == {1}
random_assignment == {Assignment("instance", i) : i \in Instances}

\* is_set() never seeing the flag.
terminate_is_set_never == FALSE

\* self.__terminate.is_set()
terminate_is_set == terminate

\* Master._timer: time.sleep(seconds); self.__terminate.set()
Timer ==
    /\ master.pc \notin {"none"}
    /\ ~terminate
    /\ terminate' = TRUE
    /\ UNCHANGED <<engine, files, mpi, task_queue, result_queue, master, worker,
                   bus_to, bus_from, executor, log>>

\* while not self.__terminate.is_set(): leaf = root.select_leaf()
MasterSelect ==
    /\ master.pc = "loop"
    /\ ~terminate_is_set
    /\ master.selected < MaxTasks
    /\ \E s \in select_leaf(storage, heap, config.root) :
        /\ storage' = s.storage
        /\ heap' = s.heap
        /\ master' = [master EXCEPT !.pc = "put", !.leaf = Some(s.leaf),
                                    !.selected = @ + 1]
    /\ UNCHANGED <<parameters, config, last, calls, leaves, applied, ncalls,
                   files, mpi, terminate, task_queue, result_queue, worker, bus_to,
                   bus_from, executor, log>>

\* self.__task_queue.put(Task(TASK_RUN, leaf)): blocks while the queue is full
MasterPut ==
    /\ master.pc = "put"
    /\ Len(task_queue) < queue_size
    /\ task_queue' = Append(task_queue, Task(TASK_RUN, master.leaf[1]))
    /\ master' = [master EXCEPT !.pc = "high", !.leaf = None,
                                !.late_put = IF terminate THEN @ + 1 ELSE @]
    /\ UNCHANGED <<engine, files, mpi, terminate, result_queue, worker, bus_to,
                   bus_from, executor, log>>

\* if self.__task_queue.qsize() < task_upper_bound: continue
MasterHigh ==
    /\ master.pc = "high"
    /\ master' = [master EXCEPT !.pc =
                    IF Len(task_queue) < task_upper_bound THEN "loop"
                    ELSE "drain"]
    /\ UNCHANGED <<engine, files, mpi, terminate, task_queue, result_queue, worker,
                   bus_to, bus_from, executor, log>>

\* while qsize() > task_lower_bound and not terminate.is_set()
MasterDrain ==
    /\ master.pc = "drain"
    /\ master' = [master EXCEPT !.pc =
                    IF Len(task_queue) > task_lower_bound /\ ~terminate_is_set
                    THEN "poll" ELSE "save"]
    /\ UNCHANGED <<engine, files, mpi, terminate, task_queue, result_queue, worker,
                   bus_to, bus_from, executor, log>>

\* result = self.__result_queue.get(timeout=5); self._update(result)
MasterPollResult ==
    /\ master.pc = "poll"
    /\ result_queue # <<>>
    /\ heap' = Master_update(storage, heap, Head(result_queue))
    /\ result_queue' = Tail(result_queue)
    /\ master' = [master EXCEPT !.pc = "drain",
                                !.late_update = IF terminate THEN @ + 1 ELSE @]
    /\ UNCHANGED <<parameters, storage, config, last, calls, leaves, applied,
                   ncalls, files, mpi, terminate, task_queue, worker, bus_to,
                   bus_from, executor, log>>

\* except queue.Empty: pass
MasterPollEmpty ==
    /\ master.pc = "poll"
    /\ result_queue = <<>>
    /\ master' = [master EXCEPT !.pc = "drain"]
    /\ UNCHANGED <<engine, files, mpi, terminate, task_queue, result_queue, worker,
                   bus_to, bus_from, executor, log>>

\* paramMCTS.configuration.save_state(...) at the end of a drain cycle; a
\* SaveError leaves run().
MasterSave ==
    /\ master.pc = "save"
    /\ \E saved \in BOOLEAN :
        /\ master' = [master EXCEPT !.pc = IF saved THEN "loop" ELSE "failed"]
        /\ disk' = IF saved
                   THEN Checkpoint(config, parameters, storage, heap)
                   ELSE disk
    /\ UNCHANGED <<engine, nio, mpi, terminate, task_queue, result_queue, worker,
                   bus_to, bus_from, executor, log>>

\* the while condition is false: self.stop_all()
MasterExit ==
    /\ master.pc = "loop"
    /\ terminate_is_set
    /\ master' = [master EXCEPT !.pc = "stop_all", !.dest = 1,
                                !.late_put = 0, !.late_update = 0]
    /\ UNCHANGED <<engine, files, mpi, terminate, task_queue, result_queue, worker,
                   bus_to, bus_from, executor, log>>

\* Master.stop_all / Master.stop: self._stop(dest=dest, tag=dest)
MasterStop ==
    /\ master.pc = "stop_all"
    /\ IF master.dest \in destinations
       THEN /\ bus_to' = [bus_to EXCEPT ![master.dest] =
                            Append(@, Task(TASK_STOP, None))]
            /\ log' = Append(log, [event |-> "stop", dest |-> master.dest])
            /\ master' = [master EXCEPT !.dest = @ + 1]
       ELSE /\ master' = [master EXCEPT !.pc = "final_save"]
            /\ UNCHANGED <<bus_to, log>>
    /\ UNCHANGED <<engine, files, mpi, terminate, task_queue, result_queue, worker,
                   bus_from, executor>>

\* the final save_state(...); a SaveError leaves run().
MasterFinalSave ==
    /\ master.pc = "final_save"
    /\ \E saved \in BOOLEAN :
        IF saved
        THEN /\ log' = Append(log, [event |-> "save", dest |-> 0])
             /\ master' = [master EXCEPT !.pc = "print"]
             /\ disk' = Checkpoint(config, parameters, storage, heap)
        ELSE /\ master' = [master EXCEPT !.pc = "failed"]
             /\ UNCHANGED <<log, disk>>
    /\ UNCHANGED <<engine, nio, mpi, terminate, task_queue, result_queue, worker,
                   bus_to, bus_from, executor>>

\* Node.uct(parent, real=True): parent.value / parent.visits is evaluated
\* for every visited child, a ZeroDivisionError where parent.visits is 0.
uct_raises(hp, c, parent) == hp[c].visits # 0 /\ hp[parent].visits = 0

\* Node.best_assignment: select_best_leaf(real=True); TRUE where a string is
\* returned, FALSE where the descent raises.
RECURSIVE best_assignment(_, _)
best_assignment(hp, n) ==
    IF is_leaf(hp, n) THEN {TRUE}
    ELSE IF \E c \in hp[n].childs[1] : uct_raises(hp, c, n) THEN {FALSE}
    ELSE UNION {best_assignment(hp, c) : c \in select_child(hp, n)}

\* print(self.__config['root'].best_assignment())
MasterPrint ==
    /\ master.pc = "print"
    /\ \E printed \in best_assignment(heap, config.root) :
        IF printed
        THEN /\ log' = Append(log, [event |-> "print", dest |-> 0])
             /\ master' = [master EXCEPT !.pc = "done"]
        ELSE /\ master' = [master EXCEPT !.pc = "failed"]
             /\ UNCHANGED log
    /\ UNCHANGED <<engine, files, mpi, terminate, task_queue, result_queue, worker,
                   bus_to, bus_from, executor>>

----------------------------------------------------------------------------
(* runtime.py: Worker (WorkerThread, the default) *)

\* task = self.__task_queue.get()
WorkerGet(r) ==
    /\ worker[r].pc = "get"
    /\ task_queue # <<>>
    /\ task_queue' = Tail(task_queue)
    /\ worker' = [worker EXCEPT ![r] =
                    [pc |-> "send", task |-> Some(Head(task_queue)),
                     result |-> None]]
    /\ UNCHANGED <<engine, files, mpi, terminate, result_queue, master, bus_to,
                   bus_from, executor, log>>

\* A shim that sends the task and goes back to the queue without waiting
\* for the reply.
WorkerSend_nowait(r) ==
    /\ worker[r].pc = "send"
    /\ \E instance \in random_assignment :
        LET leaf == worker[r].task[1].content IN
        bus_to' = [bus_to EXCEPT ![r] = Append(@,
                    [command |-> TASK_RUN,
                     node |-> leaf.node,
                     pickle |-> Pickle(heap, leaf.node),
                     assignment |-> Append(leaf.assignment, instance)])]
    /\ worker' = [worker EXCEPT ![r].pc = "get"]
    /\ UNCHANGED <<engine, files, mpi, terminate, task_queue, result_queue, master,
                   bus_from, executor, log>>

\* task.content.assignment.append(random_assignment()); self._send(task)
WorkerSend(r) ==
    /\ worker[r].pc = "send"
    /\ \E instance \in random_assignment :
        LET leaf == worker[r].task[1].content IN
        bus_to' = [bus_to EXCEPT ![r] = Append(@,
                    [command |-> TASK_RUN,
                     node |-> leaf.node,
                     pickle |-> Pickle(heap, leaf.node),
                     assignment |-> Append(leaf.assignment, instance)])]
    /\ worker' = [worker EXCEPT ![r].pc = "recv"]
    /\ UNCHANGED <<engine, files, mpi, terminate, task_queue, result_queue, master,
                   bus_from, executor, log>>

\* recv taking a message of any rank (source=ANY_SOURCE, tag=ANY_TAG).
recv_any_source(r) == destinations

\* self._recv = partial(comm.recv, source=mpi['dest'], tag=mpi['dest'])
recv_source(r) == {r}

\* result = self._recv()
WorkerRecv(r) ==
    /\ worker[r].pc = "recv"
    /\ \E q \in recv_source(r) :
        /\ bus_from[q] # <<>>
        /\ LET msg == Head(bus_from[q])
               u == Unpickle(storage, heap, msg.pickle, msg.node)
           IN /\ storage' = u.storage
              /\ heap' = u.heap
              /\ worker' = [worker EXCEPT ![r].pc = "put",
                                ![r].result = Some(Result(u.id, msg.value))]
        /\ bus_from' = [bus_from EXCEPT ![q] = Tail(@)]
    /\ UNCHANGED <<parameters, config, last, calls, leaves, applied, ncalls,
                   files, mpi, terminate, task_queue, result_queue, master, bus_to,
                   executor, log>>

\* self.__result_queue.put(result); finally: self.__task_queue.task_done()
WorkerPut(r) ==
    /\ worker[r].pc = "put"
    /\ result_queue' = Append(result_queue, worker[r].result[1])
    /\ worker' = [worker EXCEPT ![r] =
                    [pc |-> "get", task |-> None, result |-> None]]
    /\ UNCHANGED <<engine, files, mpi, terminate, task_queue, master, bus_to,
                   bus_from, executor, log>>

----------------------------------------------------------------------------
(* runtime.py: Executor *)

\* The exceptions Callstring.assign raises out of ProgramCaller.call.
CallErrors == {"VariableError", "ArgumentError"}

\* What subprocess.Popen raises when the command cannot be started.
SpawnErrors == {"OSError"}

\* The named groups the stdout patterns can capture from a run.
Captures == SUBSET {"interrupted", "time"}

\* Executor.__init__ on rank r.
NewExecutor ==
    [receiver |-> "listening", main |-> "get", signal |-> FALSE,
     queue |-> <<>>, task |-> None, error |-> NoError, killed |-> FALSE,
     prefix_cmd |-> "prefix", tempfile |-> FALSE]

\* The process of rank r has ended: SystemExit or an uncaught exception in
\* its main thread (the receiver is a daemon thread).
Ended(r) == executor[r].main \in {"exited", "raised"}

\* Executor._receive: a stop makes the process signal itself and ends the
\* receiver; anything else goes to the local queue.
ExecutorReceive(r) ==
    /\ executor[r].receiver = "listening"
    /\ ~Ended(r)
    /\ bus_to[r] # <<>>
    /\ bus_to' = [bus_to EXCEPT ![r] = Tail(@)]
    /\ executor' = [executor EXCEPT ![r] =
                      IF Head(bus_to[r]).command = TASK_STOP
                      THEN [@ EXCEPT !.receiver = "stopped", !.signal = TRUE]
                      ELSE [@ EXCEPT !.queue = Append(@, Head(bus_to[r]))]]
    /\ UNCHANGED <<engine, files, mpi, terminate, task_queue, result_queue, master,
                   worker, bus_from, log>>

\* _handler that kills the program and returns.
handler_returns(e) ==
    [e EXCEPT !.signal = FALSE, !.killed = (e.main = "call"),
              !.main = IF e.main = "call" THEN "get" ELSE e.main,
              !.task = IF e.main = "call" THEN None ELSE e.task]

\* Executor._handler in the main thread: program_caller.kill(signum)
\* terminates the process of a run in flight, then raise SystemExit().
handler(e) ==
    [e EXCEPT !.signal = FALSE, !.killed = (e.main = "call"),
              !.main = "exited"]

\* The signal handler runs in the main thread before its next instruction.
ExecutorHandler(r) ==
    /\ executor[r].signal
    /\ ~Ended(r)
    /\ executor' = [executor EXCEPT ![r] = handler(@)]
    /\ UNCHANGED <<engine, files, mpi, terminate, task_queue, result_queue, master,
                   worker, bus_to, bus_from, log>>

\* Executor.listen: task = self.__queue.get()
ExecutorGet(r) ==
    /\ executor[r].main = "get"
    /\ ~executor[r].signal
    /\ executor[r].queue # <<>>
    /\ executor' = [executor EXCEPT ![r].main = "run",
                                    ![r].task = Some(Head(executor[r].queue)),
                                    ![r].queue = Tail(@)]
    /\ UNCHANGED <<engine, files, mpi, terminate, task_queue, result_queue, master,
                   worker, bus_to, bus_from, log>>

\* Executor.listen, TASK_PREFIX: self.__config is no attribute of Executor
\* (__init__ sets __program_caller, __log, __queue), so the assignment to
\* self.__config['program_caller'].prefix_cmd raises AttributeError; the
\* finally clause runs and the exception leaves listen().
ExecutorPrefix(r) ==
    /\ executor[r].main = "run"
    /\ ~executor[r].signal
    /\ executor[r].task[1].command = TASK_PREFIX
    /\ executor' = [executor EXCEPT ![r].main = "raised", ![r].task = None,
                                    ![r].error = "AttributeError"]
    /\ UNCHANGED <<engine, files, mpi, terminate, task_queue, result_queue, master,
                   worker, bus_to, bus_from, log>>

\* ProgramCaller.call leaving through an exception of callstring.assign
\* or of Popen: os.remove is not reached, the file of the with block stays.
call_raises(e, err) ==
    [e EXCEPT !.main = "raised", !.task = None, !.error = err]

\* Executor._process, self._call(leaf.assignment_dict()) up to Popen: cat
\* is the instance variable, so the instance is copied to a temporary file
\* (delete=False); then callstring.assign renders the command line or
\* raises and Popen starts the program or raises; nothing in call,
\* _process or listen catches the exception.
ExecutorCall(r) ==
    /\ executor[r].main = "run"
    /\ ~executor[r].signal
    /\ executor[r].task[1].command = TASK_RUN
    /\ \E err \in {NoError} \cup CallErrors \cup SpawnErrors :
        LET created == [executor[r] EXCEPT !.tempfile = TRUE] IN
        executor' = [executor EXCEPT ![r] =
                        IF err = NoError THEN [created EXCEPT !.main = "call"]
                        ELSE call_raises(created, err)]
    /\ UNCHANGED <<engine, files, mpi, terminate, task_queue, result_queue, master,
                   worker, bus_to, bus_from, log>>

\* _process sending the time of an interrupted run as well.
process_value_time(stdout) ==
    IF "time" \in stdout THEN [err |-> NoError, value |-> Some(Value)]
    ELSE [err |-> "KeyError", value |-> None]

\* Executor._process after the call: None for 'interrupted' in stdout, else
\* float(result['stdout']['time']), a KeyError without a time capture.
process_value(stdout) ==
    IF "interrupted" \in stdout THEN [err |-> NoError, value |-> None]
    ELSE IF "time" \in stdout THEN [err |-> NoError, value |-> Some(Value)]
    ELSE [err |-> "KeyError", value |-> None]

\* Executor._process: the program ends, call removes its temporary file and
\* matches the output, and self._send(Result(leaf.node, value)) goes to
\* rank 0 with tag r.
ExecutorProcess(r) ==
    /\ executor[r].main = "call"
    /\ ~executor[r].signal
    /\ \E stdout \in Captures :
        LET v == process_value(stdout) IN
        IF v.err = NoError
        THEN /\ bus_from' = [bus_from EXCEPT ![r] = Append(@,
                                [node |-> executor[r].task[1].node,
                                 pickle |-> executor[r].task[1].pickle,
                                 value |-> v.value])]
             /\ executor' = [executor EXCEPT ![r].main = "get",
                                             ![r].task = None,
                                             ![r].tempfile = FALSE]
        ELSE /\ executor' = [executor EXCEPT ![r].main = "raised",
                                             ![r].task = None,
                                             ![r].error = v.err,
                                             ![r].tempfile = FALSE]
             /\ UNCHANGED bus_from
    /\ UNCHANGED <<engine, files, mpi, terminate, task_queue, result_queue, master,
                   worker, bus_to, log>>

----------------------------------------------------------------------------
(* paramMCTS.py main: rank 0 runs Master.run, every other rank an Executor *)

InitMaster ==
    /\ parameters = RegChain
    /\ storage = [k \in {{}} |-> 1]
    /\ heap = <<NewNode(<<>>)>>
    /\ config = [root |-> 1, timeout |-> Timeout]
    /\ last = [op |-> "init", node |-> 0, ok |-> TRUE, ret |-> {}]
    /\ calls = {}
    /\ leaves = <<>>
    /\ applied = <<>>
    /\ ncalls = 0
    /\ mpi \in {[size |-> n] : n \in 2..MaxSize}
    /\ terminate = FALSE
    /\ task_queue = <<>>
    /\ result_queue = <<>>
    /\ master = NewMaster("loop")
    /\ worker = [r \in destinations |->
                    [pc |-> "get", task |-> None, result |-> None]]
    /\ bus_to = [r \in destinations |-> <<>>]
    /\ bus_from = [r \in destinations |-> <<>>]
    /\ executor = [r \in destinations |-> NewExecutor]
    /\ log = <<>>
    /\ disk = None
    /\ nio = 0

NextMaster ==
    \/ Timer
    \/ MasterSelect
    \/ MasterPut
    \/ MasterHigh
    \/ MasterDrain
    \/ MasterPollResult
    \/ MasterPollEmpty
    \/ MasterSave
    \/ MasterExit
    \/ MasterStop
    \/ MasterFinalSave
    \/ MasterPrint
    \/ \E r \in destinations :
        \/ WorkerGet(r)
        \/ WorkerSend(r)
        \/ WorkerRecv(r)
        \/ WorkerPut(r)
        \/ ExecutorReceive(r)
        \/ ExecutorHandler(r)
        \/ ExecutorGet(r)
        \/ ExecutorCall(r)
        \/ ExecutorProcess(r)

SpecMaster == InitMaster /\ [][NextMaster]_vars

\* A step of Master.run in the main thread of rank 0.
MasterStep ==
    \/ MasterSelect
    \/ MasterPut
    \/ MasterHigh
    \/ MasterDrain
    \/ MasterPollResult
    \/ MasterPollEmpty
    \/ MasterSave
    \/ MasterExit
    \/ MasterStop
    \/ MasterFinalSave
    \/ MasterPrint

\* The timer thread wakes up after its sleep, and the main thread keeps
\* running: a poll returns with a result or after its timeout of 5 s.
\* Nothing is assumed of the shims and the executors.
SpecMasterFair == SpecMaster /\ WF_vars(Timer) /\ WF_vars(MasterStep)

----------------------------------------------------------------------------
(* types.py: Parameter, clear; configuration.py: save_state, load_state *)

Names(reg) == {reg[i].name : i \in DOMAIN reg}

\* Parameter.__new__ replacing the values and condition of a stored name.
Parameter_new_overwrite(reg, name, values, condition) ==
    IF values = None
    THEN [ok |-> name \in Names(reg), parameters |-> reg]
    ELSE IF name \in Names(reg)
    THEN [ok |-> TRUE,
          parameters |-> [i \in DOMAIN reg |->
                            IF reg[i].name = name
                            THEN Parameter(name, values[1], condition)
                            ELSE reg[i]]]
    ELSE [ok |-> TRUE,
          parameters |-> Append(reg, Parameter(name, values[1], condition))]

\* Parameter.__new__(cls, name, values=None, condition=None): the registry
\* afterwards; ok is FALSE where the assert on values fails.
Parameter_new(reg, name, values, condition) ==
    IF name \in Names(reg) THEN [ok |-> TRUE, parameters |-> reg]
    ELSE IF values = None THEN [ok |-> FALSE, parameters |-> reg]
    ELSE [ok |-> TRUE,
          parameters |-> Append(reg, Parameter(name, values[1], condition))]

\* The object that Parameter(name, ...) returns: the one stored under name.
Stored(reg, name) == reg[CHOOSE i \in DOMAIN reg : reg[i].name = name]

\* clear() that leaves the node store alone.
clear_parameters_only(reg, st) == [parameters |-> <<>>, storage |-> st]

\* types.clear(): Parameter.clear_storage(); Node.clear_storage()
clear(reg, st) == [parameters |-> <<>>, storage |-> [k \in {} |-> 0]]

\* Parameter.__new__ and __setstate__ for every pickled parameter.
RECURSIVE LoadParameters(_, _)
LoadParameters(reg, pickled) ==
    IF pickled = <<>> THEN reg
    ELSE LET p == Head(pickled)
             r == Parameter_new(reg, p.name, Some(p.values), p.condition)
         IN LoadParameters([i \in DOMAIN r.parameters |->
                                IF r.parameters[i].name = p.name THEN p
                                ELSE r.parameters[i]],
                           Tail(pickled))

\* load_state(filename, master): pickle.load builds the objects through
\* Node.__new__ / __setstate__ in the stores as they are, then the stores
\* are replaced (master) or cleared (executor).  ok is FALSE where
\* del configuration['root'] raises KeyError.
load_state(reg, st, hp, file, as_master) ==
    LET a == NewAll(st, hp, file.objects, DOMAIN file.objects,
                    [x \in {} |-> 0])
        from(i) == CHOOSE id \in DOMAIN file.objects : a.idmap[id] = i
        state(id) ==
            [assignments |-> file.objects[id].assignments,
             childs |-> IF file.objects[id].childs = None THEN None
                        ELSE Some({a.idmap[c] :
                                    c \in file.objects[id].childs[1]}),
             value |-> file.objects[id].value,
             visits |-> file.objects[id].visits]
        hp2 == [i \in DOMAIN a.heap |->
                    IF i \in Range(a.idmap) THEN state(from(i))
                    ELSE a.heap[i]]
        root == IF file.configuration.root = 0 THEN 0
                ELSE a.idmap[file.configuration.root]
        loaded == LoadParameters(reg, file.parameters)
    IN IF as_master
       THEN [ok |-> TRUE,
             parameters |-> file.parameters,
             storage |-> [k \in DOMAIN file.nodes |-> a.idmap[file.nodes[k]]],
             heap |-> hp2,
             configuration |-> [keys |-> file.configuration.keys,
                                root |-> root,
                                timeout |-> file.configuration.timeout]]
       ELSE [ok |-> "root" \in file.configuration.keys,
             parameters |-> clear(loaded, a.storage).parameters,
             storage |-> clear(loaded, a.storage).storage,
             heap |-> hp2,
             configuration |-> [keys |-> file.configuration.keys \ {"root"},
                                root |-> 0,
                                timeout |-> file.configuration.timeout]]

InputNames == {"a", "b"}
InputValues == {None, Some(<<1>>), Some(<<1, 2>>)}
InputConditions == {None, Some([a |-> {1}])}

\* paramMCTS.types.Parameter(name, values, condition)
CallParameter ==
    /\ ncalls < MaxCalls
    /\ ncalls' = ncalls + 1
    /\ \E name \in InputNames, values \in InputValues,
          condition \in InputConditions :
        LET r == Parameter_new(parameters, name, values, condition) IN
        /\ parameters' = r.parameters
        /\ last' = [op |-> "Parameter", node |-> 0, ok |-> r.ok, ret |-> {},
                    name |-> name, values |-> values,
                    condition |-> condition, before |-> parameters]
    /\ UNCHANGED <<storage, heap, config, calls, leaves, applied, runtime,
                   files>>

\* config['root'] = paramMCTS.types.Node()
CallRoot ==
    /\ ncalls < MaxCalls
    /\ ncalls' = ncalls + 1
    /\ LET r == Node_new(storage, heap, <<>>, TRUE) IN
        /\ storage' = r.storage
        /\ heap' = r.heap
        /\ config' = [config EXCEPT !.root = r.id]
        /\ last' = [op |-> "root", node |-> r.id, ok |-> TRUE, ret |-> {r.id}]
    /\ UNCHANGED <<parameters, calls, leaves, applied, runtime, files>>

\* node.value += v; node.visits += 1   (the value and visits setters)
CallTouch ==
    /\ ncalls < MaxCalls
    /\ ncalls' = ncalls + 1
    /\ \E n \in Interned :
        /\ heap' = [heap EXCEPT ![n].value = @ + Value, ![n].visits = @ + 1]
        /\ last' = [op |-> "touch", node |-> n, ok |-> TRUE, ret |-> {}]
    /\ UNCHANGED <<parameters, storage, config, calls, leaves, applied,
                   runtime, files>>

\* configuration.save_state(filename, config); a SaveError writes nothing.
SaveState ==
    /\ nio < MaxIO
    /\ nio' = nio + 1
    /\ \E saved \in BOOLEAN :
        /\ disk' = IF saved
                   THEN Checkpoint(config, parameters, storage, heap)
                   ELSE disk
        /\ last' = [op |-> "save_state", node |-> 0, ok |-> saved,
                    ret |-> {}]
    /\ UNCHANGED <<parameters, storage, heap, config, calls, leaves, applied,
                   ncalls, runtime>>

\* paramMCTS.types.clear()
CallClear ==
    /\ nio < MaxIO
    /\ nio' = nio + 1
    /\ parameters' = clear(parameters, storage).parameters
    /\ storage' = clear(parameters, storage).storage
    /\ last' = [op |-> "clear", node |-> 0, ok |-> TRUE, ret |-> {}]
    /\ UNCHANGED <<heap, config, calls, leaves, applied, ncalls, runtime,
                   disk>>

\* config = configuration.load_state(filename, master); without a file the
\* open fails with LoadError.
LoadState ==
    /\ nio < MaxIO
    /\ nio' = nio + 1
    /\ \E m \in BOOLEAN :
        IF disk = None
        THEN /\ last' = [op |-> "load_state", node |-> 0, ok |-> FALSE,
                         ret |-> {}, master |-> m, cleared |-> FALSE,
                         keys |-> {}]
             /\ UNCHANGED <<parameters, storage, heap, config>>
        ELSE LET r == load_state(parameters, storage, heap, disk[1].state, m)
             IN /\ parameters' = r.parameters
                /\ storage' = r.storage
                /\ heap' = r.heap
                /\ config' = IF r.ok
                             THEN [root |-> r.configuration.root,
                                   timeout |-> r.configuration.timeout]
                             ELSE config
                /\ last' = [op |-> "load_state", node |-> 0, ok |-> r.ok,
                            ret |-> {}, master |-> m,
                            cleared |-> (parameters = <<>>
                                         /\ DOMAIN storage = {}),
                            keys |-> IF r.ok THEN r.configuration.keys
                                     ELSE {}]
    /\ UNCHANGED <<calls, leaves, applied, ncalls, runtime, disk>>

\* The stores of a fresh process: nothing registered, nothing interned.
InitState ==
    /\ parameters = <<>>
    /\ storage = [k \in {} |-> 0]
    /\ heap = <<>>
    /\ config = [root |-> 0, timeout |-> Timeout]
    /\ last = [op |-> "init", node |-> 0, ok |-> TRUE, ret |-> {}]
    /\ calls = {}
    /\ leaves = <<>>
    /\ applied = <<>>
    /\ ncalls = 0
    /\ NoRuntime

NextState ==
    \/ CallParameter
    \/ CallRoot
    \/ CallGenerateChilds
    \/ CallTouch
    \/ SaveState
    \/ CallClear
    \/ LoadState

\* Registering parameters, growing a tree and checkpointing it.
SpecState == InitState /\ [][NextState]_vars

----------------------------------------------------------------------------
(* configuration.py: Callstring.  A Python string is the sequence of its     *)
(* pieces (flags, values, separators), the empty string the empty sequence.  *)

\* a str as its pieces
Str(x) == IF x = "" THEN <<>> ELSE <<x>>

\* sep.join(strs)
RECURSIVE Join(_, _)
Join(strs, sep) ==
    IF strs = <<>> THEN <<>>
    ELSE IF Len(strs) = 1 THEN strs[1]
    ELSE strs[1] \o Str(sep) \o Join(Tail(strs), sep)

\* [x for x in strs if x]
NonEmpty(strs) == SelectSeq(strs, LAMBDA x : x # <<>>)

\* _format_var asking the assignment before the constants.
format_var_assignment_first(constants, assignment, var) ==
    IF var.name \in DOMAIN assignment
    THEN [err |-> NoError, str |-> Str(assignment[var.name])]
    ELSE IF var.name \in DOMAIN constants
    THEN [err |-> NoError, str |-> Str(constants[var.name])]
    ELSE IF ~var.opt THEN [err |-> "VariableError", str |-> <<>>]
    ELSE [err |-> NoError, str |-> <<>>]

\* Callstring._format_var(var, assignment)
format_var(constants, assignment, var) ==
    IF var.name \in DOMAIN constants
    THEN [err |-> NoError, str |-> Str(constants[var.name])]
    ELSE IF var.name \in DOMAIN assignment
    THEN [err |-> NoError, str |-> Str(assignment[var.name])]
    ELSE IF ~var.opt THEN [err |-> "VariableError", str |-> <<>>]
    ELSE [err |-> NoError, str |-> <<>>]

\* _format returning the variables without the argument's name.
format_noflag(constants, assignment, arg) ==
    LET vs == [i \in DOMAIN arg.vars |->
                    format_var(constants, assignment, arg.vars[i])]
        variables == Join(NonEmpty([i \in DOMAIN vs |-> vs[i].str]), ",")
    IN IF \E i \in DOMAIN vs : vs[i].err # NoError
       THEN [err |-> IF arg.opt THEN NoError ELSE "VariableError",
             str |-> <<>>]
       ELSE IF variables = <<>>
       THEN [err |-> IF arg.opt THEN NoError ELSE "ArgumentError",
             str |-> <<>>]
       ELSE [err |-> NoError, str |-> variables]

\* _format raising for optional arguments as for required ones.
format_strict(constants, assignment, arg) ==
    LET vs == [i \in DOMAIN arg.vars |->
                    format_var(constants, assignment, arg.vars[i])]
        variables == Join(NonEmpty([i \in DOMAIN vs |-> vs[i].str]), ",")
    IN IF \E i \in DOMAIN vs : vs[i].err # NoError
       THEN [err |-> "VariableError", str |-> <<>>]
       ELSE IF variables = <<>>
       THEN [err |-> "ArgumentError", str |-> <<>>]
       ELSE [err |-> NoError, str |-> Str(arg.name) \o variables]

\* Callstring._format(arg, assignment): the argument's string, or the error
\* it raises.
format(constants, assignment, arg) ==
    LET vs == [i \in DOMAIN arg.vars |->
                    format_var(constants, assignment, arg.vars[i])]
        variables == Join(NonEmpty([i \in DOMAIN vs |-> vs[i].str]), ",")
    IN IF \E i \in DOMAIN vs : vs[i].err # NoError
       THEN [err |-> IF arg.opt THEN NoError ELSE "VariableError",
             str |-> <<>>]
       ELSE IF variables = <<>>
       THEN [err |-> IF arg.opt THEN NoError ELSE "ArgumentError",
             str |-> <<>>]
       ELSE [err |-> NoError, str |-> Str(arg.name) \o variables]

\* Callstring.assign(assignment): [err, ret]; the arguments are formatted in
\* order, so the first one that raises decides the error; ret is None then.
assign(callstring, constants, assignment) ==
    LET es == [i \in DOMAIN callstring |->
                    format(constants, assignment, callstring[i])]
        failed == {i \in DOMAIN es : es[i].err # NoError}
    IN IF failed # {}
       THEN [err |-> es[CHOOSE i \in failed : \A j \in failed : i <= j].err,
             ret |-> None]
       ELSE [err |-> NoError,
             ret |-> Some(Join(NonEmpty([i \in DOMAIN es |-> es[i].str]),
                               " "))]

\* The templates that _parse builds: one argument per flag, optional or
\* not, with up to MaxVars variables, each optional or not.
Flags == <<"-f ", "-g ">>
VarNames == {"x", "y"}
Strings == {"", "1"}

Variables == [opt : BOOLEAN, name : VarNames]

VarSeqs == UNION {[1..n -> Variables] : n \in 0..MaxVars}

Callstrings ==
    UNION {[1..n -> VarSeqs \X BOOLEAN] : n \in 1..Len(Flags)}

Callstring(t) ==
    [i \in DOMAIN t |-> [opt |-> t[i][2], name |-> Flags[i], vars |-> t[i][1]]]

\* The constants of read_hal_json and the assignment_dict of a leaf.
Dicts(names, values) == UNION {[d -> values] : d \in SUBSET names}

Constants == Dicts({"x"}, {"", "7"})
AssignmentDicts == Dicts(VarNames, Strings)

\* Callstring(callstring, constants).assign(assignment).  assign reads
\* nothing but its template, its constants and its argument, so a behaviour
\* makes one call.
CallAssign ==
    /\ last.op = "init"
    /\ \E t \in Callstrings, constants \in Constants,
          assignment \in AssignmentDicts :
        LET r == assign(Callstring(t), constants, assignment) IN
        last' = [op |-> "assign", node |-> 0, ok |-> r.err = NoError,
                 ret |-> r.ret, err |-> r.err,
                 callstring |-> Callstring(t), constants |-> constants,
                 assignment |-> assignment]
    /\ UNCHANGED <<parameters, storage, heap, config, calls, leaves, applied,
                   ncalls, runtime, files>>

NextCallstring == CallAssign

SpecCallstring == InitState /\ [][NextCallstring]_vars

----------------------------------------------------------------------------
(* Rollouts next to selections *)

\* node.random_child() on a stored node
CallRandomChild ==
    /\ ncalls < MaxRollouts
    /\ ncalls' = ncalls + 1
    /\ \E n \in Interned : \E r \in random_child(storage, heap, heap[n]) :
        /\ storage' = r.storage
        /\ heap' = r.heap
        /\ last' = [op |-> "random_child", node |-> n, ok |-> TRUE,
                    ret |-> {},
                    assignment |-> IF r.ret = None THEN heap[n].assignments
                                   ELSE r.ret[1].assignments]
    /\ UNCHANGED <<parameters, config, calls, leaves, applied, runtime, files>>

\* node.random_leaf() on a stored node
CallRandomLeaf ==
    /\ ncalls < MaxRollouts
    /\ ncalls' = ncalls + 1
    /\ \E n \in Interned : \E r \in random_leaf(storage, heap, heap[n]) :
        /\ storage' = r.storage
        /\ heap' = r.heap
        /\ last' = [op |-> "random_leaf", node |-> n, ok |-> TRUE,
                    ret |-> {}, assignment |-> r.assignment]
    /\ UNCHANGED <<parameters, config, calls, leaves, applied, runtime, files>>

NextRollout ==
    \/ CallSelectLeaf
    \/ CallRandomChild
    \/ CallRandomLeaf

SpecRollout == Init /\ [][NextRollout]_vars

----------------------------------------------------------------------------
(* runtime.py: one Executor and the messages rank 0 can send to it *)

\* The prefix commands rank 0 can send.
Prefixes == {"wrapper"}

\* What rank 0 can send with tag r: a run task for the Leaf of a stored
\* node, a prefix command, a stop.
Messages ==
    {[command |-> TASK_RUN, node |-> n, pickle |-> Pickle(heap, n),
      assignment |-> Append(heap[n].assignments, i)] :
        n \in Interned, i \in random_assignment}
    \cup {Task(TASK_PREFIX, c) : c \in Prefixes}
    \cup {Task(TASK_STOP, None)}

\* comm.send(task, dest=r, tag=r) on rank 0
BusSend(r) ==
    /\ ncalls < MaxMessages
    /\ \E task \in Messages : bus_to' = [bus_to EXCEPT ![r] = Append(@, task)]
    /\ ncalls' = ncalls + 1
    /\ UNCHANGED <<parameters, storage, heap, config, last, calls, leaves,
                   applied, files, mpi, terminate, task_queue, result_queue,
                   master, worker, bus_from, executor, log>>

\* Rank 1 runs Executor.listen; rank 0 holds the root and its children.
InitExecutor ==
    /\ parameters = RegChain
    /\ config = [root |-> 1, timeout |-> Timeout]
    /\ \E tree \in {generate_childs([k \in {{}} |-> 1], <<NewNode(<<>>)>>, 1)} :
        /\ storage = tree.storage
        /\ heap = tree.heap
    /\ last = [op |-> "init", node |-> 0, ok |-> TRUE, ret |-> {}]
    /\ calls = {}
    /\ leaves = <<>>
    /\ applied = <<>>
    /\ ncalls = 0
    /\ mpi = [size |-> 2]
    /\ terminate = FALSE
    /\ task_queue = <<>>
    /\ result_queue = <<>>
    /\ master = NewMaster("none")
    /\ worker = [r \in destinations |->
                    [pc |-> "get", task |-> None, result |-> None]]
    /\ bus_to = [r \in destinations |-> <<>>]
    /\ bus_from = [r \in destinations |-> <<>>]
    /\ executor = [r \in destinations |-> NewExecutor]
    /\ log = <<>>
    /\ disk = None
    /\ nio = 0

NextExecutor ==
    \E r \in destinations :
        \/ BusSend(r)
        \/ ExecutorReceive(r)
        \/ ExecutorHandler(r)
        \/ ExecutorGet(r)
        \/ ExecutorPrefix(r)
        \/ ExecutorCall(r)
        \/ ExecutorProcess(r)

SpecExecutor == InitExecutor /\ [][NextExecutor]_vars

\* os.kill(os.getpid(), SIGTERM) is delivered: the handler of a pending
\* signal runs.
SpecExecutorFair == SpecExecutor /\ WF_vars(ExecutorHandler(1))

----------------------------------------------------------------------------
(* runtime.py: Master._update on a store that results have gone through *)

\* A node after p interrupted and q timed runs were back-propagated to it.
Prior(node, p, q) ==
    [node EXCEPT !.value = Penalty * Timeout * p + Value * q,
                 !.visits = p + q]

\* The chain root, {a}, {a, b} as two selections leave it, after p
\* interrupted and q timed runs; the node {a, b} was interned by the
\* second selection and may have missed the first result.
InitUpdate ==
    /\ parameters = RegChain
    /\ config = [root |-> 1, timeout |-> Timeout]
    /\ LET g1 == generate_childs([k \in {{}} |-> 1], <<NewNode(<<>>)>>, 1)
           c == CHOOSE c \in g1.ret : TRUE
           g2 == generate_childs(g1.storage, g1.heap, c)
       IN \E tree \in {g2} :
          /\ storage = tree.storage
          /\ \E p, q \in 0..MaxPrior :
             \E late \in {<<0, 0>>, <<1, 0>>, <<0, 1>>} :
                /\ Penalty * Timeout * p + Value * q < Exp2(Mantissa)
                /\ late[1] <= p
                /\ late[2] <= q
                /\ heap = [id \in DOMAIN tree.heap |->
                            IF id \in tree.ret
                            THEN Prior(tree.heap[id], p - late[1], q - late[2])
                            ELSE Prior(tree.heap[id], p, q)]
    /\ last = [op |-> "init", node |-> 0, ok |-> TRUE, ret |-> {}]
    /\ calls = {}
    /\ leaves = <<>>
    /\ applied = <<>>
    /\ ncalls = 0
    /\ NoRuntime

\* self._update(result) for a Result of any interned node
CallMasterUpdate ==
    /\ ncalls < MaxUpdates
    /\ \E n \in Interned : \E v \in ResultValues :
        /\ heap' = Master_update(storage, heap, Result(n, v))
        /\ last' = [op |-> "_update", node |-> n, ok |-> TRUE, ret |-> {}]
    /\ ncalls' = ncalls + 1
    /\ UNCHANGED <<parameters, storage, config, calls, leaves, applied,
                   runtime, files>>

NextUpdate == CallMasterUpdate

SpecUpdate == InitUpdate /\ [][NextUpdate]_vars

----------------------------------------------------------------------------
(* Properties *)

\* The reward that a Result stands for in the tree (spec 4.H).
RewardOf(v) == IF v = None THEN Penalty * config.timeout ELSE v[1]

LastApplied == applied[Len(applied)]

\* C1: any two Node(S) constructions with interning enabled whose
\* collections are equal as sets return the same record, and node_count()
\* is the number of distinct assignment sets constructed so far.
C1_Interning ==
    /\ \A c1, c2 \in calls : c1.key = c2.key => c1.id = c2.id
    /\ node_count = Cardinality({c.key : c \in calls})

\* A Node(S) call returned a stored record built from another ordering.
C1_Witness ==
    /\ last.op = "Node"
    /\ last.save
    /\ last.node # 0
    /\ node_count >= 2
    /\ heap[last.node].assignments # last.seq

\* C2 as claimed: a back-propagation updates exactly the interned nodes
\* whose assignment set is a subset of the leaf's full rolled-out set.
C2_FullLeafSet ==
    [][applied' # applied =>
        \A id \in Interned :
            IF Key(id) \subseteq LastApplied'.full
            THEN /\ heap'[id].visits = heap[id].visits + 1
                 /\ heap'[id].value =
                        heap[id].value + RewardOf(LastApplied'.value)
            ELSE heap'[id] = heap[id]]_vars

\* C2 amended: a back-propagation adds 1 to visits and the reward to value
\* of exactly the interned nodes whose assignment set is a subset of the
\* assignment set of the result's node (the selected child); every other
\* interned node is unchanged.
C2_NodeSet ==
    [][applied' # applied =>
        \A id \in Interned :
            IF Key(id) \subseteq LastApplied'.node
            THEN /\ heap'[id].visits = heap[id].visits + 1
                 /\ heap'[id].value =
                        heap[id].value + RewardOf(LastApplied'.value)
                 /\ heap'[id].childs = heap[id].childs
                 /\ heap'[id].assignments = heap[id].assignments
            ELSE heap'[id] = heap[id]]_vars

\* A result was back-propagated while a stored node lay inside the rollout
\* but outside the result's node; some nodes were updated, some were not.
C2_Witness ==
    /\ last.op = "update"
    /\ \E id \in Interned :
        /\ Key(id) \subseteq LastApplied.full
        /\ ~(Key(id) \subseteq LastApplied.node)
        /\ heap[id].visits = 0
    /\ \E id \in Interned : id # config.root /\ heap[id].visits = 1

C6_AlwaysExpanded ==
    (last.op = "generate_childs" /\ last.ok)
        => heap[last.node].childs # None

\* C6 amended: for a node with a free parameter, after generate_childs()
\* returns its children are defined and a further call fails the
\* assertion, leaving the stores as they are; for a node without free
\* parameters generate_childs() returns the node itself, leaves the
\* children undefined and can be called again.
C6_ExpandedUnlessTerminal ==
    /\ [](( last.op = "generate_childs" /\ last.ok ) =>
            IF free_parameters(heap[last.node].assignments) # <<>>
            THEN heap[last.node].childs # None
            ELSE heap[last.node].childs = None /\ last.ret = {last.node})
    /\ [][last'.op = "generate_childs" =>
            IF heap[last'.node].childs # None
            THEN ~last'.ok /\ heap' = heap /\ storage' = storage
            ELSE last'.ok]_vars

\* generate_childs() was refused on a node that had been expanded.
C6_Witness ==
    /\ last.op = "generate_childs"
    /\ ~last.ok
    /\ heap[last.node].childs # None

\* C7: p is in free_parameters(n) iff no assignment of n has p's name and
\* every (dep, allowed) of p's condition is met by an assignment of n.
C7_FreeParameters ==
    \A id \in Interned : \A k \in DOMAIN parameters :
        LET p == parameters[k]
            asg == heap[id].assignments
        IN (p \in ToSet(free_parameters(asg))) <=>
            /\ \A i \in DOMAIN asg : asg[i][1] # p.name
            /\ p.condition # None =>
                \A dep \in DOMAIN p.condition[1] :
                    \E i \in DOMAIN asg :
                        /\ asg[i][1] = dep
                        /\ asg[i][2] \in p.condition[1][dep]

\* A node meeting both entries of c's condition has c free, while a node
\* meeting only one of them has not.
C7_Witness ==
    /\ \E id \in Interned :
        /\ Key(id) = {Assignment("a", 2), Assignment("b", 1)}
        /\ \E p \in ToSet(free_parameters(heap[id].assignments)) :
            p.name = "c"
    /\ \E id \in Interned :
        /\ Key(id) = {Assignment("a", 2)}
        /\ \A p \in ToSet(free_parameters(heap[id].assignments)) :
            p.name # "c"

\* The children that the expansion of a node must produce.
ChildKeys(assignments) ==
    LET fp == free_parameters(assignments) IN
    {ToSet(assignments) \cup {Assignment(fp[i].name, fp[i].values[j])} :
        <<i, j>> \in {ij \in (1..Len(fp)) \X (1..2) :
                        ij[2] <= Len(fp[ij[1]].values)}}

\* C8: expanding a node that has a free parameter makes its children
\* exactly the interned nodes node + (p, v), p free and v in p.values, each
\* one assignment larger than the parent, and adds nothing else to the
\* store.
C8_Expansion ==
    [][( /\ last'.op = "generate_childs"
         /\ last'.ok
         /\ free_parameters(heap[last'.node].assignments) # <<>> ) =>
        LET n == last'.node
            K == ChildKeys(heap[n].assignments)
        IN /\ heap'[n].childs # None
           /\ {ToSet(heap'[c].assignments) : c \in heap'[n].childs[1]} = K
           /\ Cardinality(heap'[n].childs[1]) = Cardinality(K)
           /\ Cardinality(K) = Len(NewAssignments(heap[n].assignments))
           /\ \A c \in heap'[n].childs[1] :
                /\ ToSet(heap'[c].assignments) \in DOMAIN storage'
                /\ storage'[ToSet(heap'[c].assignments)] = c
                /\ Cardinality(ToSet(heap'[c].assignments)) =
                      Cardinality(ToSet(heap[n].assignments)) + 1
           /\ DOMAIN storage' = DOMAIN storage \cup K
           /\ \A k \in DOMAIN storage : storage'[k] = storage[k]]_vars

\* A node with free parameters was expanded into fresh and already
\* interned children.
C8_Witness ==
    /\ last.op = "generate_childs"
    /\ last.ok
    /\ heap[last.node].childs # None
    /\ Cardinality(heap[last.node].childs[1]) >= 2
    /\ \E c \in heap[last.node].childs[1] : c < last.node

\* C9: the reward that a result adds to the tree is penalty * timeout when
\* its value is None and the value itself otherwise.
C9_Penalty ==
    [][applied' # applied =>
        heap'[config.root].value - heap[config.root].value =
            IF LastApplied'.value = None THEN Penalty * Timeout
            ELSE LastApplied'.value[1]]_vars

\* A timeout result and a measured result have both been back-propagated.
C9_Witness ==
    /\ Len(applied) >= 2
    /\ applied[1].value = None
    /\ applied[2].value # None
    /\ heap[config.root].value = Penalty * Timeout + Value

\* W: the number of executors served by the master (ranks 1..size-1).
W == mpi.size - 1

\* C4: in every reachable state of a master serving W >= 1 executors, under
\* any interleaving of the main loop and the worker shims, the task queue
\* length lies in [0, 2*W].
C4_QueueBound ==
    /\ W >= 1
    /\ Len(task_queue) >= 0
    /\ Len(task_queue) <= 2 * W

\* The queue stands at 2*W while a shim is busy with a task it took.
C4_Witness ==
    /\ Len(task_queue) = 2 * W
    /\ \E r \in 1..W : worker[r].pc # "get"
    /\ master.pc = "poll"

\* C5 as claimed: a drain cycle never exits while the task queue length
\* exceeds ceil(W/2), unless the terminate flag is set.
C5_HalfExecutors ==
    [][master.pc = "drain" /\ master'.pc = "save" =>
        Len(task_queue) <= (W + 1) \div 2 \/ terminate]_vars

\* C5 amended: a drain cycle never exits while the task queue length
\* exceeds ceil((W+1)/2), half of the bus size, unless terminate is set.
C5_HalfBusSize ==
    [][master.pc = "drain" /\ master'.pc = "save" =>
        Len(task_queue) <= (W + 2) \div 2 \/ terminate]_vars

\* With two executors a drain cycle has ended with two tasks still queued
\* and terminate not set.
C5_Witness ==
    /\ W = 2
    /\ master.pc = "save"
    /\ ~terminate
    /\ Len(task_queue) = 2
    /\ \E r \in 1..W : worker[r].pc # "get"

parameter_count == Len(parameters)

\* The key sets of the children of a node in a heap (None where unexpanded).
ChildKeysIn(hp, n) ==
    IF hp[n].childs = None THEN None
    ELSE Some({ToSet(hp[c].assignments) : c \in hp[n].childs[1]})

\* C11: save_state followed by clearing both stores and load_state in master
\* mode restores a parameter registry and a node store with the same keys
\* and the same per-node assignments, children, value and visits as before
\* the save, and the returned configuration's root is the very node record
\* stored under the empty assignment set in the restored node store.
C11_RoundTrip ==
    (last.op = "load_state" /\ last.master /\ last.ok /\ last.cleared) =>
        LET s == disk[1] IN
        /\ parameters = s.parameters
        /\ parameter_count = Len(s.parameters)
        /\ DOMAIN storage = DOMAIN s.storage
        /\ \A k \in DOMAIN storage :
            LET n == storage[k]
                o == s.storage[k]
            IN /\ heap[n].assignments = s.heap[o].assignments
               /\ heap[n].value = s.heap[o].value
               /\ heap[n].visits = s.heap[o].visits
               /\ ChildKeysIn(heap, n) = ChildKeysIn(s.heap, o)
               /\ heap[n].childs # None => heap[n].childs[1] \subseteq Interned
        /\ (s.config.root # 0 /\ {} \in DOMAIN s.storage
                /\ s.storage[{}] = s.config.root)
            => ("root" \in last.keys /\ config.root = storage[{}])

\* An expanded and visited tree came back from the file into cleared
\* stores, in objects other than the ones that were saved.
C11_Witness ==
    /\ last.op = "load_state"
    /\ last.master
    /\ last.ok
    /\ last.cleared
    /\ parameters # <<>>
    /\ node_count >= 2
    /\ config.root # 0
    /\ config.root # disk[1].config.root
    /\ heap[config.root].childs # None
    /\ heap[config.root].visits > 0

\* C12: after load_state in executor mode of any valid checkpoint, whatever
\* the stores held before the call, both the parameter registry and the node
\* store are empty, the returned configuration has no root key, and its
\* instance_selector and program_caller entries are present.
C12_ExecutorMode ==
    (last.op = "load_state" /\ ~last.master /\ last.ok) =>
        /\ parameters = <<>>
        /\ parameter_count = 0
        /\ node_count = 0
        /\ DOMAIN storage = {}
        /\ "root" \notin last.keys
        /\ config.root = 0
        /\ {"instance_selector", "program_caller"} \subseteq last.keys

\* An executor-mode load of a checkpoint holding nodes and parameters, made
\* with stores that were not empty.
C12_Witness ==
    /\ last.op = "load_state"
    /\ ~last.master
    /\ last.ok
    /\ ~last.cleared
    /\ DOMAIN disk[1].state.nodes # {}
    /\ disk[1].state.parameters # <<>>

\* C13: constructing a Parameter with a name already in the registry returns
\* the existing object with its original values and condition unchanged and
\* leaves parameter_count unchanged; constructing it with a new name adds
\* exactly one entry.
C13_ParameterInterning ==
    last.op = "Parameter" =>
        IF last.name \in Names(last.before)
        THEN /\ last.ok
             /\ parameters = last.before
             /\ Stored(parameters, last.name) = Stored(last.before, last.name)
             /\ parameter_count = Len(last.before)
        ELSE IF last.values # None
        THEN /\ last.ok
             /\ parameter_count = Len(last.before) + 1
             /\ \A i \in DOMAIN last.before : parameters[i] = last.before[i]
             /\ Stored(parameters, last.name) =
                    Parameter(last.name, last.values[1], last.condition)
        ELSE ~last.ok /\ parameters = last.before

\* A second construction under a stored name, with other values.
C13_Witness ==
    /\ last.op = "Parameter"
    /\ last.name \in Names(last.before)
    /\ last.values # None
    /\ Stored(parameters, last.name).values # last.values[1]

\* What the spec says of a variable and of an argument, for the template,
\* constants and assignment of the last assign call.
Supplied(name) ==
    name \in DOMAIN last.constants \cup DOMAIN last.assignment

Resolved(name) ==
    IF name \in DOMAIN last.constants THEN last.constants[name]
    ELSE IF name \in DOMAIN last.assignment THEN last.assignment[name]
    ELSE ""

MissingRequired(arg) ==
    \E j \in DOMAIN arg.vars :
        ~arg.vars[j].opt /\ ~Supplied(arg.vars[j].name)

NothingResolves(arg) ==
    \A j \in DOMAIN arg.vars : Resolved(arg.vars[j].name) = ""

RequiredArgs == {i \in DOMAIN last.callstring : ~last.callstring[i].opt}

AllRequiredSupplied ==
    \A i \in DOMAIN last.callstring : ~MissingRequired(last.callstring[i])

Contains(str, x) == x = "" \/ x \in ToSet(str)

\* C14 as claimed: for any template T and any assignment A that supplies a
\* value for every required variable of T (directly or via the constants),
\* T.assign(A) raises neither VariableError nor ArgumentError and its output
\* contains the flag of every required argument.
C14_AllRequiredSupplied ==
    (last.op = "assign" /\ AllRequiredSupplied) =>
        /\ last.err = NoError
        /\ \A i \in RequiredArgs :
                Contains(last.ret[1], last.callstring[i].name)

\* C14 amended: as claimed, where in addition every required argument has a
\* variable that resolves to a non-empty string.
C14_SomethingResolves ==
    (/\ last.op = "assign"
     /\ AllRequiredSupplied
     /\ \A i \in RequiredArgs : ~NothingResolves(last.callstring[i])) =>
        /\ last.err = NoError
        /\ last.ret # None
        /\ \A i \in RequiredArgs :
                Contains(last.ret[1], last.callstring[i].name)

\* Two required arguments were rendered, one of them with an optional
\* variable that nothing supplies.
C14_Witness ==
    /\ last.op = "assign"
    /\ AllRequiredSupplied
    /\ RequiredArgs = {1, 2}
    /\ \A i \in RequiredArgs : ~NothingResolves(last.callstring[i])
    /\ \E j \in DOMAIN last.callstring[1].vars :
            ~Supplied(last.callstring[1].vars[j].name)
    /\ last.ok

\* The error a required argument is specified to raise.
ExpectedError(arg) ==
    IF arg.opt THEN NoError
    ELSE IF MissingRequired(arg) THEN "VariableError"
    ELSE IF NothingResolves(arg) THEN "ArgumentError"
    ELSE NoError

\* The string a rendered argument is specified to be.
ExpectedString(arg) ==
    Str(arg.name) \o
    Join(NonEmpty([j \in DOMAIN arg.vars |-> Str(Resolved(arg.vars[j].name))]),
         ",")

\* C15: on a required argument each variable resolves from the constants
\* first and otherwise from the assignment map; a required variable in
\* neither makes assign fail with VariableError; if every variable of the
\* argument resolves to nothing, assign fails with ArgumentError; in both
\* failure cases no string is returned.
C15_RequiredArgument ==
    last.op = "assign" =>
        LET failing == {i \in DOMAIN last.callstring :
                            ExpectedError(last.callstring[i]) # NoError}
        IN IF failing # {}
           THEN /\ last.err = ExpectedError(last.callstring[
                        CHOOSE i \in failing : \A j \in failing : i <= j])
                /\ last.ret = None
                /\ ~last.ok
           ELSE /\ last.err = NoError
                /\ last.ret # None
                /\ RequiredArgs = DOMAIN last.callstring =>
                        last.ret[1] =
                            Join([i \in DOMAIN last.callstring |->
                                    ExpectedString(last.callstring[i])], " ")

\* The first required argument resolved a variable from the constants
\* although the assignment map holds another value for it, and the second
\* one, whose variables are all supplied, resolved to nothing: no string.
C15_Witness ==
    /\ last.op = "assign"
    /\ RequiredArgs = {1, 2}
    /\ ExpectedError(last.callstring[1]) = NoError
    /\ \E j \in DOMAIN last.callstring[1].vars :
        LET name == last.callstring[1].vars[j].name IN
        /\ name \in DOMAIN last.constants
        /\ name \in DOMAIN last.assignment
        /\ last.constants[name] # last.assignment[name]
    /\ last.callstring[2].vars # <<>>
    /\ ~MissingRequired(last.callstring[2])
    /\ last.err = "ArgumentError"
    /\ last.ret = None

Remove(seq, i) ==
    [j \in 1..(Len(seq) - 1) |-> IF j < i THEN seq[j] ELSE seq[j + 1]]

\* C16: an optional top-level argument never makes assign fail: if one of
\* its required variables is unresolved, or none of its variables resolves,
\* the argument (flag included) is omitted from the output and the remaining
\* arguments are rendered unchanged.
C16_OptionalArgument ==
    last.op = "assign" =>
        /\ RequiredArgs = {} => last.err = NoError
        /\ \A i \in DOMAIN last.callstring :
            last.callstring[i].opt =>
                LET rest == assign(Remove(last.callstring, i),
                                   last.constants, last.assignment)
                IN /\ last.err = rest.err
                   /\ (MissingRequired(last.callstring[i])
                        \/ NothingResolves(last.callstring[i])) =>
                        /\ last.ret = rest.ret
                        /\ last.ok => ~Contains(last.ret[1],
                                                last.callstring[i].name)

\* An optional argument with an unresolved required variable was dropped
\* next to a required argument that was rendered.
C16_Witness ==
    /\ last.op = "assign"
    /\ last.ok
    /\ Len(last.callstring) = 2
    /\ last.callstring[1].opt
    /\ MissingRequired(last.callstring[1])
    /\ ~last.callstring[2].opt
    /\ last.ret[1] # <<>>

\* C17: a rollout (random_child / random_leaf) from any node leaves the node
\* store unchanged: node_count and every interned node's children, value and
\* visits are the same before and after; and select_leaf adds to the store
\* only the children generated by its single expansion step.
C17_RolloutFrame ==
    [][/\ ncalls' # ncalls =>
            /\ storage' = storage
            /\ heap' = heap
            /\ node_count' = node_count
       /\ Len(leaves') > Len(leaves) =>
            LET e == last'.node IN
            /\ heap[e].childs = None
            /\ \A k \in DOMAIN storage : /\ k \in DOMAIN storage'
                                         /\ storage'[k] = storage[k]
            /\ \A k \in DOMAIN storage' \ DOMAIN storage :
                    /\ heap'[e].childs # None
                    /\ storage'[k] \in heap'[e].childs[1]
            /\ \A id \in Interned :
                    /\ heap'[id].value = heap[id].value
                    /\ heap'[id].visits = heap[id].visits
                    /\ heap'[id].assignments = heap[id].assignments
                    /\ id # e => heap'[id].childs = heap[id].childs]_vars

\* A rollout ran through a node that the store does not hold.
C17_Witness ==
    /\ last.op = "random_leaf"
    /\ Len(last.assignment) >= Len(heap[last.node].assignments) + 2
    /\ \E i \in 1..(Len(last.assignment) - 1) :
        /\ i > Len(heap[last.node].assignments)
        /\ ToSet(SubSeq(last.assignment, 1, i)) \notin DOMAIN storage
    /\ node_count >= 2
    /\ heap[last.node].childs # None

\* The Leaf that the last select_leaf call returned.
LastLeaf == leaves[Len(leaves)]

\* C18: every Leaf returned by select_leaf holds an interned node that is a
\* member of the children set generated by this call's expansion of the
\* unexpanded node reached by the descent (or that node itself when it has
\* no free parameters), and a full assignment that, as a set, contains the
\* node's assignments, assigns no parameter name twice, and leaves no
\* parameter free.
C18_Leaf ==
    /\ [](last.op = "select_leaf" =>
            LET e == last.node
                n == LastLeaf.node
                full == LastLeaf.assignment
            IN /\ n \in Interned
               /\ IF heap[e].childs # None THEN n \in heap[e].childs[1]
                  ELSE /\ n = e
                       /\ free_parameters(heap[e].assignments) = <<>>
               /\ ToSet(heap[n].assignments) \subseteq ToSet(full)
               /\ \A i, j \in DOMAIN full : full[i][1] = full[j][1] => i = j
               /\ free_parameters(full) = <<>>)
    /\ [][Len(leaves') > Len(leaves) =>
            /\ heap[last'.node].childs = None
            /\ last'.node \in select_best_leaf(heap, config.root)]_vars

\* A leaf whose node is a fresh child and whose full assignment extends it,
\* yet leaves out a parameter whose condition does not hold.
C18_Witness ==
    /\ last.op = "select_leaf"
    /\ heap[last.node].childs # None
    /\ Len(LastLeaf.assignment) > Len(heap[LastLeaf.node].assignments)
    /\ Len(LastLeaf.assignment) < Len(parameters)

\* C19: in any run of the master (selections, task dispatch through shims
\* and executors, result ingestion), each node is expanded at most once:
\* once a node's children are defined they are never changed and never
\* become undefined again.
C19_ExpandedOnce ==
    [][\A id \in DOMAIN heap :
            heap[id].childs # None => heap'[id].childs = heap[id].childs]_vars

\* C20: the master's node store and parameter registry are read and written
\* only by the master main loop: no step of a worker shim (dequeue, append
\* instance assignment, send task, receive reply, enqueue result) adds a
\* node to the store or changes any interned node's value, visits or
\* children.
C20_ShimsKeepOut ==
    [][worker' # worker =>
            /\ parameters' = parameters
            /\ storage' = storage
            /\ \A id \in Interned :
                /\ heap'[id].value = heap[id].value
                /\ heap'[id].visits = heap[id].visits
                /\ heap'[id].childs = heap[id].childs]_vars

\* C21: no result is lost: every Result that a worker shim enqueues on the
\* result queue is back-propagated into the tree by the master exactly once
\* before the final checkpoint is written, so the final save_state finds
\* the result queue empty.
C21_NoResultLost ==
    [][master.pc = "final_save" /\ master'.pc = "print" =>
            result_queue = <<>>]_vars

\* The Results the master can be handed for the nodes of the store.
Results == {Result(n, v) : n \in Interned, v \in ResultValues}

\* The heap after the master's update for r1 and then for r2.
Twice(r1, r2) ==
    Master_update(storage, Master_update(storage, heap, r1), r2)

\* C22 as claimed: back-propagations commute: for a fixed node store and
\* any two results r1, r2, applying the master's update for r1 then r2
\* yields the same value and visits on every node as applying r2 then r1.
C22_Commute ==
    \A r1, r2 \in Results :
        LET h12 == Twice(r1, r2)
            h21 == Twice(r2, r1)
        IN \A id \in Interned :
            /\ h12[id].visits = h21[id].visits
            /\ h12[id].value = h21[id].value

\* C22 amended: for a fixed node store and any two results r1, r2, applying
\* the master's update for r1 then r2 yields the same visits on every node
\* as applying r2 then r1, and the same value on every node whose value
\* plus either result's value is a float (the first addition of either
\* order does not round).
C22_CommuteExact ==
    \A r1, r2 \in Results :
        LET h12 == Twice(r1, r2)
            h21 == Twice(r2, r1)
        IN \A id \in Interned :
            /\ h12[id].visits = h21[id].visits
            /\ (/\ Exact(heap[id].value + update_value(r1))
                /\ Exact(heap[id].value + update_value(r2)))
               => h12[id].value = h21[id].value

\* After an update the root holds a value to which an interrupted run of
\* {a} and a timed run of {a, b} add without rounding one at a time, while
\* their sum rounds; the two orders agree on the root and differ on it from
\* the store as it stands.
C22_Witness ==
    /\ last.op = "_update"
    /\ \E r1, r2 \in Results :
        /\ r1.node # r2.node
        /\ r1.value = None
        /\ r2.value # None
        /\ Exact(heap[config.root].value + update_value(r1))
        /\ Exact(heap[config.root].value + update_value(r2))
        /\ ~Exact(heap[config.root].value + update_value(r1)
                                          + update_value(r2))
        /\ Twice(r1, r2)[config.root].value = Twice(r2, r1)[config.root].value
        /\ Twice(r1, r2)[config.root].value > heap[config.root].value
        /\ Twice(r1, r2)[config.root].visits = heap[config.root].visits + 2

\* C23: when rendering the command line for a run fails with VariableError
\* or ArgumentError on a required argument, the error propagates to the
\* master, which continues with the next selection: the executor keeps
\* serving later tasks (its main thread has not ended with the error) and
\* the shim of that rank is not left blocked forever waiting for a reply
\* (it does not wait on an empty bus for an executor that has ended).
C23_RenderingErrorSurvived ==
    \A r \in destinations :
        executor[r].error \in CallErrors =>
            /\ executor[r].main # "raised"
            /\ ~(worker[r].pc = "recv" /\ bus_from[r] = <<>>)

\* C24: if a periodic checkpoint at the end of a drain cycle fails with
\* SaveError, the master continues its main loop (the step after the
\* periodic save is the head of the loop) and still performs the shutdown
\* protocol, including sending stop to every executor, when terminate is
\* set (run() never ends without the stops).
C24_SaveErrorSurvived ==
    /\ [][master.pc = "save" /\ master'.pc # "save" =>
            master'.pc = "loop"]_vars
    /\ [](master.pc = "failed" =>
            \A r \in destinations :
                \E i \in DOMAIN log : log[i] = [event |-> "stop", dest |-> r])

\* C25: when an executor receives a prefix command, it sets its
\* ProgramCaller's prefix template to the message content, sends no result,
\* and goes on to process subsequent messages (its main thread is back at
\* the queue), so later run tasks use the new prefix.
C25_PrefixSet ==
    [][\A r \in destinations :
        (/\ executor[r].main = "run"
         /\ executor[r].task[1].command = TASK_PREFIX
         /\ executor'[r].main \notin {"run", "exited"})
        => /\ executor'[r].main = "get"
           /\ executor'[r].prefix_cmd = executor[r].task[1].content
           /\ bus_from'[r] = bus_from[r]]_vars

\* C26: for every run task an executor processes (absent a stop), it sends
\* exactly one Result to the master tagged with its own rank, whose node is
\* the task's leaf node and whose value is none if and only if the stdout
\* captures include interrupted, and otherwise is the time capture parsed
\* as a number.
C26_OneResult ==
    [][\A r \in destinations :
        (/\ executor[r].task # None
         /\ executor[r].task[1].command = TASK_RUN
         /\ executor'[r].task = None)
        => /\ Len(bus_from'[r]) = Len(bus_from[r]) + 1
           /\ \A q \in destinations \ {r} : bus_from'[q] = bus_from[q]
           /\ LET result == bus_from'[r][Len(bus_from'[r])] IN
              /\ result.node = executor[r].task[1].node
              /\ \E stdout \in Captures :
                    /\ result.value = None <=> "interrupted" \in stdout
                    /\ result.value # None =>
                        "time" \in stdout /\ result.value = Some(Value)]_vars

\* C27: after an executor receives a stop message it terminates: its signal
\* handler kills the target process (and recorded children) if a run is in
\* flight, and from then on the executor starts no further run and sends
\* no further Result, even if run tasks are still waiting in its local
\* queue.
C27_StopTerminates ==
    /\ \A r \in {1} :
        executor[r].receiver = "stopped" ~> executor[r].main = "exited"
    /\ [](\A r \in destinations :
            executor[r].receiver = "stopped" /\ ~executor[r].signal =>
                executor[r].main = "exited")
    /\ [][\A r \in destinations :
            executor[r].receiver = "stopped" =>
                /\ bus_from'[r] = bus_from[r]
                /\ executor'[r].queue = executor[r].queue
                /\ executor'[r].main \in {executor[r].main, "exited"}
                /\ executor'[r].main = "exited" /\ executor[r].main # "exited"
                    => executor'[r].killed = (executor[r].main = "call")]_vars

\* The executor has exited on a stop that found a run in flight, which the
\* handler killed, and a run task still waiting in the local queue.
C27_Witness ==
    \E r \in destinations :
        /\ executor[r].receiver = "stopped"
        /\ executor[r].main = "exited"
        /\ executor[r].killed
        /\ executor[r].task # None
        /\ executor[r].queue # <<>>
        /\ executor[r].queue[1].command = TASK_RUN
        /\ bus_from[r] = <<>>

\* C28: the terminate flag is checked at the head of every main-loop
\* iteration and after every result poll (result or timeout): once it is
\* set, the master enqueues at most one more run task and back-propagates
\* at most one more result before leaving the main loop.
C28_AtMostOneMore ==
    /\ master.late_put <= 1
    /\ master.late_update <= 1
    /\ master.pc \in {"stop_all", "final_save", "print", "done"} => terminate

\* The flag was set while the master waited for a result: it has
\* back-propagated that one result, found the flag set at the next check
\* of the drain loop and is back at the head of the main loop.
C28_Witness ==
    /\ master.pc = "loop"
    /\ terminate
    /\ master.late_update = 1
    /\ master.late_put = 0

\* Every executor has been sent its stop.
AllStopped ==
    \A r \in destinations :
        \E i \in DOMAIN log : log[i] = [event |-> "stop", dest |-> r]

\* C29: under fairness (the deadline timer eventually fires and each timed
\* result poll eventually returns), Master.run always eventually reaches
\* shutdown and returns, even if no executor ever replies to any task; the
\* terminate flag, once set, is never cleared.
C29_RunReturns ==
    /\ <>(master.pc \in {"done", "failed"} /\ AllStopped)
    /\ [][terminate => terminate']_vars

\* C30: request/response matching per rank: the Result that the shim bound
\* to rank r enqueues after sending a task carries the leaf node of that
\* very task (results from rank r arrive in issue order: the reply a shim
\* takes is the oldest message of rank r, sent for the task the shim holds)
\* and a stop message sent by the master to rank r is never consumed by
\* the shim as a reply (what the shim takes is a Result).
C30_ReplyMatches ==
    /\ [](\A r \in destinations :
            /\ worker[r].pc = "put" =>
                worker[r].result[1].node = worker[r].task[1].content.node
            /\ \A i \in DOMAIN bus_from[r] :
                /\ DOMAIN bus_from[r][i] = {"node", "pickle", "value"}
                /\ worker[r].pc = "recv"
                /\ bus_from[r][i].node = worker[r].task[1].content.node)
    /\ [][\A r \in destinations :
            worker[r].pc = "put" /\ worker'[r].pc = "get" =>
                /\ result_queue' = Append(result_queue, worker[r].result[1])
                /\ worker[r].result[1].node = worker[r].task[1].content.node]_vars

\* Two shims hold the replies to their tasks, for different leaf nodes,
\* after the master has sent its stop to both ranks.
C30_Witness ==
    /\ W = 2
    /\ AllStopped
    /\ worker[1].pc = "put"
    /\ worker[2].pc = "put"
    /\ worker[1].result[1].node # worker[2].result[1].node
    /\ worker[1].result[1].node = worker[1].task[1].content.node
    /\ worker[2].result[1].node = worker[2].task[1].content.node

----------------------------------------------------------------------------
(* ProgramCaller.call and its temporary file *)

\* C31: whenever ProgramCaller.call (with cat set) has returned or has
\* raised, the temporary file it created is gone: an executor that is not
\* inside a call (waiting for a task, dispatching one, or ended by an
\* exception) has no temporary file left on disk.
C31_TempfileRemoved ==
    \A r \in DOMAIN executor :
        executor[r].main \in {"get", "run", "raised"} => ~executor[r].tempfile

----------------------------------------------------------------------------
(* Master.run: the task queue and its capacity *)

\* C32: the master's enqueue of a run task never blocks: in every
\* reachable state the task queue is no longer than the high-water mark
\* (the bus size, W+1), which is strictly below the capacity of the queue
\* (2 * bus size), so the queue is not full when the main loop calls put.
C32_PutNeverBlocks ==
    /\ Len(task_queue) <= W + 1
    /\ W + 1 < queue_size
    /\ master.pc = "put" => Len(task_queue) < queue_size

\* The main loop has just put a task and the queue stands at the
\* high-water mark, no shim having taken a task yet.
C32_Witness ==
    /\ master.pc = "high"
    /\ Len(task_queue) = W + 1
    /\ \A r \in destinations : worker[r].pc = "get"

----------------------------------------------------------------------------
(* Worker: one shim per executor rank, one task at a time *)

\* The run tasks in a sequence of messages.
RunTasks(q) == {i \in DOMAIN q : q[i].command = TASK_RUN}

\* The nodes of the run tasks on their way to rank r or worked on by it.
InFlight(r) ==
    {bus_to[r][i].node : i \in RunTasks(bus_to[r])}
        \cup {executor[r].queue[i].node : i \in RunTasks(executor[r].queue)}
        \cup (IF executor[r].task # None
                  /\ executor[r].task[1].command = TASK_RUN
              THEN {executor[r].task[1].node} ELSE {})

\* The run tasks sent to rank r whose reply the shim has not taken yet.
Outstanding(r) ==
    Cardinality(RunTasks(bus_to[r])) + Cardinality(RunTasks(executor[r].queue))
        + (IF executor[r].task # None /\ executor[r].task[1].command = TASK_RUN
           THEN 1 ELSE 0)
        + Len(bus_from[r])

\* C33: shims are bound one-to-one to the executor ranks 1..W, and at most
\* one run task is outstanding per rank: what is on its way to rank r or
\* back from it is the one task the shim of r holds and waits for, and a
\* shim takes or sends a task only when nothing is outstanding at its rank
\* and the previous reply has been put on the result queue.
C33_OneOutstanding ==
    /\ DOMAIN worker = 1..W
    /\ DOMAIN executor = 1..W
    /\ \A r \in 1..W :
        /\ Outstanding(r) <= 1
        /\ Outstanding(r) = 1 => worker[r].pc = "recv"
        /\ \A n \in InFlight(r) : worker[r].task[1].content.node = n
        /\ worker[r].pc \in {"get", "send"} =>
                Outstanding(r) = 0 /\ worker[r].result = None

\* Two shims wait at the same time, each for the reply of its own rank.
C33_Witness ==
    /\ W = 2
    /\ \A r \in 1..W : Outstanding(r) = 1 /\ worker[r].pc = "recv"
    /\ bus_from[2] # <<>>
    /\ master.selected = MaxTasks

----------------------------------------------------------------------------
(* select_leaf and _update on the tree of three unconditional parameters *)

\* config['root'] = paramMCTS.types.Node() with the registry RegFlat.
InitTree ==
    /\ parameters = RegFlat
    /\ storage = [k \in {{}} |-> 1]
    /\ heap = <<NewNode(<<>>)>>
    /\ config = [root |-> 1, timeout |-> Timeout]
    /\ last = [op |-> "init", node |-> 0, ok |-> TRUE, ret |-> {}]
    /\ calls = {}
    /\ leaves = <<>>
    /\ applied = <<>>
    /\ ncalls = 0
    /\ NoRuntime

\* leaf = root.select_leaf(), the leaf waiting for its result.
SelectLeaf ==
    /\ ncalls < MaxDescents
    /\ Len(leaves) < MaxOutstanding
    /\ ncalls' = ncalls + 1
    /\ \E s \in select_leaf(storage, heap, config.root) :
        /\ storage' = s.storage
        /\ heap' = s.heap
        /\ leaves' = Append(leaves, s.leaf)
        /\ last' = [op |-> "select_leaf", node |-> s.expanded, ok |-> TRUE,
                    ret |-> {s.leaf.node}]
    /\ UNCHANGED <<parameters, config, calls, applied, runtime, files>>

\* self._update(result) for the Result of a leaf that waits for one.
Update ==
    /\ \E i \in DOMAIN leaves : \E v \in ResultValues :
        /\ heap' = Master_update(storage, heap, Result(leaves[i].node, v))
        /\ leaves' = [j \in 1..(Len(leaves) - 1) |->
                        IF j < i THEN leaves[j] ELSE leaves[j + 1]]
        /\ last' = [op |-> "update", node |-> leaves[i].node, ok |-> TRUE,
                    ret |-> {}]
    /\ UNCHANGED <<parameters, storage, config, calls, applied, ncalls,
                   runtime, files>>

NextTree == SelectLeaf \/ Update

SpecTree == InitTree /\ [][NextTree]_vars

\* C34: in every state reached by select_leaf calls and back-propagations
\* from a store holding only the root, every expanded node p and every
\* child c of p satisfy c.visits <= p.visits.
C34_ChildNoMoreVisited ==
    \A p \in Interned :
        heap[p].childs # None =>
            \A c \in heap[p].childs[1] : heap[c].visits <= heap[p].visits

\* Node p is interned and expanded, and n is one of its children with
\* exactly one assignment more.
ParentOf(p, n) ==
    /\ p \in Interned
    /\ heap[p].childs # None
    /\ n \in heap[p].childs[1]
    /\ Key(p) \subseteq Key(n)
    /\ Cardinality(Key(n) \ Key(p)) = 1

\* C35: in every state reached by select_leaf calls and back-propagations
\* from a store holding only the root, every interned non-root node is in
\* the children set of at least one interned, expanded node whose
\* assignment set is its own minus exactly one assignment; and no step
\* removes a node from the store.
C35_EveryNodeHasParent ==
    /\ [](\A n \in Interned : Key(n) # {} => \E p \in Interned : ParentOf(p, n))
    /\ [][\A k \in DOMAIN storage :
            k \in DOMAIN storage' /\ storage'[k] = storage[k]]_vars

\* A visited node is a child of two expanded nodes.
C35_Witness ==
    \E n \in Interned : \E p, q \in Interned :
        /\ p # q
        /\ ParentOf(p, n)
        /\ ParentOf(q, n)
        /\ heap[n].visits > 0

----------------------------------------------------------------------------
(* Master.run on a configuration without parameters *)

\* A configuration file that declares no parameter: the root has no free
\* parameter, generate_childs returns the root itself, and every run task
\* carries the root.
RegNone == <<>>

InitMasterBare ==
    /\ parameters = RegNone
    /\ storage = [k \in {{}} |-> 1]
    /\ heap = <<NewNode(<<>>)>>
    /\ config = [root |-> 1, timeout |-> Timeout]
    /\ last = [op |-> "init", node |-> 0, ok |-> TRUE, ret |-> {}]
    /\ calls = {}
    /\ leaves = <<>>
    /\ applied = <<>>
    /\ ncalls = 0
    /\ mpi \in {[size |-> n] : n \in 2..MaxSize}
    /\ terminate = FALSE
    /\ task_queue = <<>>
    /\ result_queue = <<>>
    /\ master = NewMaster("loop")
    /\ worker = [r \in destinations |->
                    [pc |-> "get", task |-> None, result |-> None]]
    /\ bus_to = [r \in destinations |-> <<>>]
    /\ bus_from = [r \in destinations |-> <<>>]
    /\ executor = [r \in destinations |-> NewExecutor]
    /\ log = <<>>
    /\ disk = None
    /\ nio = 0

SpecMasterBare == InitMasterBare /\ [][NextMaster]_vars

\* C36: during a master run the root's visits increases by exactly one,
\* and its value by the applied reward, in every step in which the master
\* back-propagates a result, and neither changes in any other step.
C36_RootCountsResults ==
    [][LET root == config.root
           ingest == /\ master.pc = "poll"
                     /\ result_queue # <<>>
                     /\ master'.pc = "drain"
       IN IF ingest
          THEN /\ heap'[root].visits = heap[root].visits + 1
               /\ heap'[root].value =
                    float_add(heap[root].value,
                              update_value(Head(result_queue)))
          ELSE /\ heap'[root].visits = heap[root].visits
               /\ heap'[root].value = heap[root].value]_vars
====
